---- MODULE Spec2Model ----
(***************************************************************************)
(* UrchinLoop (src/urchinloop.js): the reasoning loop of one request, the   *)
(* tool dispatch of one iteration, and the persisted chat history.          *)
(*                                                                          *)
(* Text is modelled as a sequence of tokens.  A token is a record with a    *)
(* field t naming its kind and, by kind, the fields that decide what the    *)
(* code does with it; TokLen gives the number of characters it stands for. *)
(***************************************************************************)
EXTENDS Integers, Sequences, FiniteSets, TLC

\* ------------------------------------------------------------------------
\* Program constants (src/urchinloop.js, lines 19-24 and the literals below)
\* ------------------------------------------------------------------------
MAX_CONTEXT_CHARS == 80000
MAX_HISTORY == 30
MAX_CHAT_HISTORY == 200
\* messages[i].content.slice(0, 200) in trimMessagesToBudget
TRIM_KEEP == 200
\* raw.length <= 3000 and slice(0, 2500) in summarizeToolResult
SUMMARY_PASS == 3000
SUMMARY_KEEP == 2500
MAX_CONDENSED_CHARS == 4000
MAX_SESSION_SUMMARIES == 20
MAX_SESSION_CHARS == 1500
\* Object.entries(urchinProfile).slice(-50) in loadMemoryLayers
MAX_PROFILE_KEYS == 50
\* manualKeys.length > 100 in loadMemoryLayers
MAX_MANUAL_KEYS == 100
\* keys.length > 300 in the two functions that fill the embedding cache
MAX_EMBEDDINGS == 300

\* ------------------------------------------------------------------------
\* Bounds of the model
\* ------------------------------------------------------------------------
\* options.maxSteps is drawn from 1..MaxStepsOpt
MaxStepsOpt == 2
\* number of urchinLoop requests run one after another
MaxRequests == 2
\* number of operations on the store (tool calls, composes, maintenance
\* passes) run one after another
MaxOps == 3
\* number of evaluations of one skill run one after another
MaxEvals == 2
\* number of entries of a message stack given to trimMessagesToBudget
MaxStack == 3
\* the lengths of the tool results lie up to MaxDelta characters around the
\* thresholds of summarizeToolResult
MaxDelta == 1
\* number of requests of a client whose maintenance passes run
MaxTurns == 1
\* number of REMEMBER jobs in one iteration
MaxJobs == 2

\* ------------------------------------------------------------------------
\* Text
\* ------------------------------------------------------------------------
\* a literal piece of text of Len(s) characters
Lit(s) == [t |-> "text", s |-> s, n |-> Len(s)]
\* a piece of text of n characters, named s
Blob(s, n) == [t |-> "text", s |-> s, n |-> n]
\* <<THINK>>...<</THINK>> holding n characters of reasoning
Think(s, n) == [t |-> "think", s |-> s, n |-> n]
\* <<TOOL:name>> or <<TOOL:name:param>>
ToolTag(name, param) == [t |-> "tool", name |-> name, param |-> param]
\* the newline character
NL == [t |-> "ws", s |-> "\n", n |-> 1]

\* characters of one token
TokLen(tok) ==
  CASE tok.t = "text" -> tok.n
    [] tok.t = "ws" -> tok.n
    [] tok.t = "think" -> 9 + tok.n + 10
    [] tok.t = "tool" ->
         7 + Len(tok.name) + (IF tok.param = "" THEN 0 ELSE 1 + Len(tok.param)) + 2
    [] tok.t = "label" -> 17 + Len(tok.name) + 3
    [] tok.t = "hint" -> 46
    [] tok.t = "json" -> tok.len

\* String.prototype.length
RECURSIVE Size(_)
Size(content) ==
  IF content = <<>> THEN 0
  ELSE IF Len(content) = 1 THEN TokLen(content[1])
  ELSE LET half == Len(content) \div 2
       IN  Size(SubSeq(content, 1, half))
           + Size(SubSeq(content, half + 1, Len(content)))

\* String.prototype.slice(0, k): the first k characters; a token the cut falls
\* in keeps its first characters as plain text
RECURSIVE Slice(_, _)
Slice(content, k) ==
  IF content = <<>> \/ k <= 0 THEN <<>>
  ELSE LET h == Head(content) IN
       IF TokLen(h) <= k
       THEN <<h>> \o Slice(Tail(content), k - TokLen(h))
       ELSE <<Blob(IF h.t = "text" THEN h.s ELSE "cut", k)>>

\* String.prototype.trim(): whitespace removed at both ends
RECURSIVE TrimStart(_)
TrimStart(content) ==
  IF content # <<>> /\ Head(content).t = "ws" THEN TrimStart(Tail(content))
  ELSE content

RECURSIVE TrimEnd(_)
TrimEnd(content) ==
  IF content # <<>> /\ content[Len(content)].t = "ws"
  THEN TrimEnd(SubSeq(content, 1, Len(content) - 1))
  ELSE content

Trim(content) == TrimEnd(TrimStart(content))

\* Array.prototype.slice(-n): the last n elements
LastN(seq, n) ==
  IF Len(seq) <= n THEN seq ELSE SubSeq(seq, Len(seq) - n + 1, Len(seq))

\* the 10 characters of the marker appended to a trimmed entry
TrimMark == Blob("[trimmed]", 10)

\* ------------------------------------------------------------------------
\* trimMessagesToBudget (lines 52-62)
\* ------------------------------------------------------------------------
RECURSIVE TotalSize(_)
TotalSize(msgs) ==
  IF msgs = <<>> THEN 0
  ELSE IF Len(msgs) = 1 THEN Size(msgs[1].content)
  ELSE LET half == Len(msgs) \div 2
       IN  TotalSize(SubSeq(msgs, 1, half))
           + TotalSize(SubSeq(msgs, half + 1, Len(msgs)))

\* TrimLoop with the loop condition written i < messages.length - 1
RECURSIVE TrimLoopToLastButOne(_, _, _, _)
TrimLoopToLastButOne(msgs, total, i, budget) ==
  IF total > budget /\ i < Len(msgs) - 1
  THEN LET old == Size(msgs[i + 1].content)
           cut == Slice(msgs[i + 1].content, TRIM_KEEP) \o <<TrimMark>>
       IN  TrimLoopToLastButOne([msgs EXCEPT ![i + 1].content = cut],
                                total - (old - Size(cut)), i + 1, budget)
  ELSE msgs

\* the while loop, i counting from 0 as in the code
RECURSIVE TrimLoop(_, _, _, _)
TrimLoop(msgs, total, i, budget) ==
  IF total > budget /\ i < Len(msgs) - 2
  THEN LET old == Size(msgs[i + 1].content)
           cut == Slice(msgs[i + 1].content, TRIM_KEEP) \o <<TrimMark>>
       IN  TrimLoop([msgs EXCEPT ![i + 1].content = cut],
                    total - (old - Size(cut)), i + 1, budget)
  ELSE msgs

trimMessagesToBudget(msgs, budget) == TrimLoop(msgs, TotalSize(msgs), 0, budget)

\* ------------------------------------------------------------------------
\* Parsing of a model reply (THINK_REGEX, TOOL_REGEX; lines 627-637)
\* ------------------------------------------------------------------------
\* raw.match(THINK_REGEX): the first think block, if any
RECURSIVE FirstThink(_)
FirstThink(raw) ==
  IF raw = <<>> THEN <<>>
  ELSE IF Head(raw).t = "think" THEN <<Head(raw)>>
  ELSE FirstThink(Tail(raw))

\* raw.replace(THINK_REGEX, ''): the regex has no g flag, so the first think
\* block is removed and later ones stay
RECURSIVE ReplaceFirstThink(_)
ReplaceFirstThink(raw) ==
  IF raw = <<>> THEN <<>>
  ELSE IF Head(raw).t = "think" THEN Tail(raw)
  ELSE <<Head(raw)>> \o ReplaceFirstThink(Tail(raw))

\* const cleaned = raw.replace(THINK_REGEX, '').trim()
Cleaned(raw) == Trim(ReplaceFirstThink(raw))

\* [...cleaned.matchAll(TOOL_REGEX)] mapped to {name, param}: the tool tags of
\* the cleaned text, in the order of the text
RECURSIVE ToolJobsOf(_)
ToolJobsOf(cleaned) ==
  IF cleaned = <<>> THEN <<>>
  ELSE IF Head(cleaned).t = "tool"
       THEN <<[name |-> Head(cleaned).name, param |-> Head(cleaned).param]>>
            \o ToolJobsOf(Tail(cleaned))
       ELSE ToolJobsOf(Tail(cleaned))

\* ------------------------------------------------------------------------
\* Tool registry and executeOne (lines 269-316, 612, 640-647)
\* ------------------------------------------------------------------------
\* the keys of createBuiltInTools(storage)
BuiltInTools == {"WEB_SEARCH", "FETCH_URL", "REMEMBER", "RECALL", "SEARCH_MEMORY"}

\* allTools is an object literal, so allTools[name] also finds the members of
\* Object.prototype; toString is the one the model's replies name
ObjectPrototype == {"toString"}

\* const allTools = { ...createBuiltInTools(storage), ...customTools }
AllTools(customTools) == BuiltInTools \cup customTools

\* const handler = allTools[name]: an own property, an inherited one, or
\* undefined
Lookup(name, customTools) ==
  IF name \in AllTools(customTools) THEN "own"
  ELSE IF name \in ObjectPrototype THEN "inherited"
  ELSE "none"

\* the absent error field of a result
NoError == "<none>"

\* a tool result: val is the kind of JavaScript value, error its error field
\* (NoError when it has none), len the length of JSON.stringify of it, preview
\* the length of its contentPreview field (0 when it has none)
Result(val, error, len, preview) ==
  [val |-> val, error |-> error, len |-> len, preview |-> preview]

\* {"error":"<msg>"}
ErrorResult(msg) == Result("object", msg, 12 + Len(msg), 0)

\* what a handler may do when it is called: return a success payload, return
\* an {error} object, return nothing, throw an Error with a message, throw an
\* Error with an empty message, throw a string, throw null
HandlerBehaviours ==
  {"ok", "err", "void", "throwMsg", "throwEmpty", "throwStr", "throwNull"}

\* the built-in tools catch every exception and return {error: ...}; a custom
\* tool is the caller's code
BehavioursOf(name, customTools) ==
  IF name \in customTools THEN HandlerBehaviours
  ELSE IF name \in {"WEB_SEARCH", "FETCH_URL"} THEN {"ok", "err"}
  ELSE IF name \in BuiltInTools THEN {"ok"}
  ELSE {"proto"}

\* the promise of executeOne({name, param}) once the handler has behaved as b:
\* fulfilled with a value, or rejected (e.message of null throws inside the
\* catch block)
executeOne(name, handler, b) ==
  IF handler = "none"
  THEN [state |-> "fulfilled", value |-> ErrorResult("Unknown tool: " \o name)]
  ELSE CASE b = "ok" ->
              [state |-> "fulfilled", value |-> Result("object", NoError, 16, 0)]
         [] b = "err" ->
              [state |-> "fulfilled", value |-> ErrorResult("failed")]
         [] b = "void" ->
              [state |-> "fulfilled", value |-> Result("undefined", NoError, 0, 0)]
         [] b = "throwMsg" ->
              [state |-> "fulfilled", value |-> ErrorResult("boom")]
         [] b = "throwEmpty" ->
              [state |-> "fulfilled", value |-> ErrorResult("")]
         [] b = "throwStr" ->
              [state |-> "fulfilled", value |-> Result("object", NoError, 2, 0)]
         [] b = "throwNull" ->
              [state |-> "rejected", value |-> Result("undefined", NoError, 0, 0)]
         [] b = "proto" ->
              [state |-> "fulfilled", value |-> Result("string", NoError, 20, 0)]

\* a job whose promise has not settled yet; read without being awaited, a
\* promise is an object that serializes as {}
Pending == [state |-> "pending", value |-> Result("object", NoError, 2, 0)]

\* ------------------------------------------------------------------------
\* summarizeToolResult and the rendering of one iteration (lines 67-74, 653-662)
\* ------------------------------------------------------------------------
\* the 12 characters of the marker appended to a truncated result
TRUNC_MARK == 12

\* JSON.stringify(undefined) is undefined, and raw.length then throws
SummarizeThrows(result) == result.val = "undefined"

\* summarizeToolResult without the branch of line 70: every large result is
\* cut as a string
summarizeToolResultCutAll(toolName, result) ==
  LET raw == [t |-> "json", val |-> result.val, error |-> result.error,
              len |-> result.len, cut |-> FALSE]
  IN  IF raw.len <= SUMMARY_PASS THEN raw
      ELSE [raw EXCEPT !.len = SUMMARY_KEEP + TRUNC_MARK, !.cut = TRUE]

\* the text summarizeToolResult returns, for a result it does not throw on
summarizeToolResult(toolName, result) ==
  LET raw == [t |-> "json", val |-> result.val, error |-> result.error,
              len |-> result.len, cut |-> FALSE]
  IN  IF raw.len <= SUMMARY_PASS THEN raw
      ELSE IF toolName = "FETCH_URL" /\ result.preview > 0
      THEN [raw EXCEPT
              !.len = result.len - result.preview + TRUNC_MARK
                      + (IF result.preview < SUMMARY_KEEP
                         THEN result.preview ELSE SUMMARY_KEEP),
              !.cut = TRUE]
      ELSE [raw EXCEPT !.len = SUMMARY_KEEP + TRUNC_MARK, !.cut = TRUE]

\* if (tr?.error): the error field is there and is not the empty string
Truthy(error) == error \notin {NoError, ""}

\* one pass of the for loop at lines 654-660
RenderOne(name, tr) ==
  <<[t |-> "label", name |-> name], summarizeToolResult(name, tr), NL>>
  \o (IF Truthy(tr.error) THEN <<NL, [t |-> "hint"], NL>> ELSE <<>>)

\* combinedResults after the passes for jobs i..Len(jobs), results[k] being the
\* result the loop reads for job k
RECURSIVE RenderFrom(_, _, _)
RenderFrom(jobs, results, i) ==
  IF i > Len(jobs) THEN <<>>
  ELSE RenderOne(jobs[i].name, results[i]) \o RenderFrom(jobs, results, i + 1)

\* whether the for loop throws: some result has no serialization
RenderThrows(results) == \E i \in DOMAIN results : SummarizeThrows(results[i])

\* ------------------------------------------------------------------------
\* loadMemoryLayers, layers 1 to 3 (lines 364-406)
\*
\* The requests of this model pass no pageContext and no captured context
\* (the defaults of urchinLoop), and the profile, memory-entry and skill
\* regions of the store are empty, so layers 4 to 6 add nothing to the
\* current-turn message.
\* ------------------------------------------------------------------------
\* Layer 1: the condensed narrative as a synthetic prior exchange
CondensedLayer(condensed) ==
  IF Size(condensed) > 0
  THEN << [role |-> "user",
           content |-> <<Lit("[Previous conversation history (condensed):"), NL>>
                       \o condensed \o <<Lit("]")>>],
          [role |-> "assistant", content |-> <<Blob("Understood", 51)>>] >>
  ELSE <<>>

\* Layer 2: history.slice(-MAX_HISTORY), each turn with role user or assistant
HistoryLayer(turns) ==
  [i \in 1..Len(turns) |->
     [role |-> IF turns[i].role = "user" THEN "user" ELSE "assistant",
      content |-> turns[i].text]]

\* Layer 3: the current-turn user message, ('\n' + userInput).trim()
CurrentTurn(userInput) ==
  [role |-> "user", content |-> Trim(<<NL>> \o userInput)]

\* loadMemoryLayers with history.slice(0, MAX_HISTORY) as layer 2
loadMemoryLayersOldest(condensed, history, userInput) ==
  CondensedLayer(condensed)
  \o HistoryLayer(IF Len(history) <= MAX_HISTORY THEN history
                  ELSE SubSeq(history, 1, MAX_HISTORY))
  \o <<CurrentTurn(userInput)>>

loadMemoryLayers(condensed, history, userInput) ==
  CondensedLayer(condensed)
  \o HistoryLayer(LastN(history, MAX_HISTORY))
  \o <<CurrentTurn(userInput)>>

\* ------------------------------------------------------------------------
\* State
\* ------------------------------------------------------------------------
VARIABLES
  urchinChatHistory,  \* store: the persisted chat history, {role, text}
  urchinCondensed,    \* store: the condensed narrative
  pc,                 \* where the request is: idle, await_model, dispatch,
                      \* persist, returned, thrown
  opts,               \* the options of the request
  messages,           \* the message stack of the request
  step,               \* the loop variable
  raw,                \* the last model reply
  finalAnswer,        \* the answer variable of the loop
  toolJobs,           \* the jobs of the iteration
  promises,           \* the promise of executeOne for each job
  outcome,            \* what urchinLoop returned or threw
  scheduled,          \* maintenance passes handed to setTimeout
  llmInFlight,        \* loop model calls issued and not yet answered
  llmCalls,           \* loop model calls issued by the request
  handlerCalls,       \* names of the handlers the request has called
  settleOrder,        \* the jobs being waited for, in the order they settled
  behaved,            \* what the handler of each job of the iteration did
  failed,             \* a loop model call of the request has failed
  appended,           \* every entry ever appended to the chat history
  requests,           \* requests started so far
  urchinMemory,       \* store: session summaries, manual entries, _convCount
  urchinProfile,      \* store: the user profile
  urchinSkills,       \* store: the learned skills
  urchinEmbeddingCache, \* store: memory key -> embedding vector
  tool,               \* what the last memory tool call did
  composed,           \* what the last loadMemoryLayers returned and did
  pass,               \* what the last maintenance pass did
  now,                \* Date.now(), in hours
  ops,                \* operations on the store run so far
  timers,             \* the maintenance passes handed to setTimeout and not
                      \* yet run, each with what its closure holds
  storage,            \* the storage backend: whether get hands out copies,
                      \* and which object it holds under urchinMemory and
                      \* urchinSkills (0: undefined)
  heap,               \* the objects handlers hold references to, by identity
  procs               \* the handlers that run concurrently: where each is
                      \* and the reference it holds

vars ==
  << urchinChatHistory, urchinCondensed, pc, opts, messages, step, raw,
     finalAnswer, toolJobs, promises, outcome, scheduled, llmInFlight,
     llmCalls, handlerCalls, settleOrder, behaved, failed, appended,
     requests, urchinMemory, urchinProfile, urchinSkills,
     urchinEmbeddingCache, tool, composed, pass, now, ops, timers,
     storage, heap, procs >>

\* the objects of concurrent handlers
raceVars == <<storage, heap, procs>>

\* the regions of the store behind the memory layers, with what the last
\* compose and the last maintenance pass did to them
regions ==
  << urchinMemory, urchinProfile, urchinSkills, urchinEmbeddingCache,
     tool, composed, pass, now, ops >>

\* the store, and the state of the iteration's jobs
store ==
  << urchinChatHistory, urchinCondensed, scheduled, appended, regions, timers,
     raceVars >>
jobState == <<toolJobs, promises, handlerCalls, settleOrder, behaved>>

\* ------------------------------------------------------------------------
\* Inputs
\* ------------------------------------------------------------------------
\* a chat history of n entries left in the store by earlier runs, entry i a
\* text of i characters
PriorChat(n) ==
  [i \in 1..n |->
     [role |-> IF i % 2 = 1 THEN "user" ELSE "assistant",
      text |-> <<Blob("prior", i)>>]]

\* lengths of the chat history the store starts with
PriorLengths == {0, MAX_CHAT_HISTORY - 2, MAX_CHAT_HISTORY - 1}

\* the user input of the k-th request: a text of k characters
InputOf(k) == <<Blob("input", k)>>

\* an earlier exchange whose first turn alone is larger than the context
\* budget
EarlierExchange ==
  << [role |-> "user", text |-> <<Blob("paste", MAX_CONTEXT_CHARS + 1)>>],
     [role |-> "assistant", text |-> <<Lit("earlier answer")>>] >>

\* the callers of the model: a first call with the defaults (no history,
\* runPostJobs true), and a call that passes an earlier exchange and turns
\* the maintenance pass off
Callers ==
  { [history |-> <<>>, runPostJobs |-> TRUE],
    [history |-> EarlierExchange, runPostJobs |-> FALSE] }

\* options.tools: the caller registers one tool of its own
CustomTools == {"CUSTOM"}

\* what the model may reply
Replies ==
  { <<Lit("Done.")>>,
    <<Think("plan", 4), Lit("Done.")>>,
    <<Think("plan", 4)>>,
    <<Think("plan", 4), ToolTag("WEB_SEARCH", "q")>>,
    <<Lit("Checking."), ToolTag("CUSTOM", "x"), ToolTag("RECALL", "wallet"),
      ToolTag("NOPE", "")>>,
    <<ToolTag("toString", "")>> }

NoOutcome == [kind |-> "none", answer |-> <<>>]

\* no memory tool has been called, no loadMemoryLayers has run, no
\* maintenance pass has run
NoTool == [op |-> 0, name |-> "", embedded |-> {}]
NoCompose ==
  [op |-> 0, messages |-> <<>>, activeSkillNames |-> <<>>, candidates |-> <<>>,
   filterCalls |-> 0, relevant |-> <<>>, embedded |-> {}, wrote |-> {}]
NoPass ==
  [op |-> 0, count |-> 0, summarized |-> FALSE, condensing |-> "none",
   uncut |-> <<>>, evaluated |-> FALSE, scores |-> <<>>, due |-> {},
   ran |-> {}, failed |-> {}, rejected |-> FALSE, down |-> {}]

\* ------------------------------------------------------------------------
\* Init: the state after the module is loaded, the store as earlier runs of
\* the program may have left it
\* ------------------------------------------------------------------------
\* the default storage with nothing handed out, and no handler running
\* beside the request
NoStorage == [copies |-> FALSE, urchinMemory |-> 0, urchinSkills |-> 0]

Sequential ==
  /\ storage = NoStorage
  /\ heap = <<>>
  /\ procs = <<>>

Init ==
  /\ \E n \in PriorLengths : urchinChatHistory = PriorChat(n)
  /\ urchinCondensed = <<Lit("narrative")>>
  /\ appended = urchinChatHistory
  /\ pc = "idle"
  /\ opts = [userInput |-> <<>>, history |-> <<>>, maxSteps |-> 0,
             tools |-> {}, runPostJobs |-> TRUE]
  /\ messages = <<>>
  /\ step = 0
  /\ raw = <<>>
  /\ finalAnswer = <<>>
  /\ toolJobs = <<>>
  /\ promises = <<>>
  /\ outcome = NoOutcome
  /\ scheduled = 0
  /\ llmInFlight = 0
  /\ llmCalls = 0
  /\ handlerCalls = <<>>
  /\ settleOrder = <<>>
  /\ behaved = <<>>
  /\ failed = FALSE
  /\ requests = 0
  /\ urchinMemory = <<>>
  /\ urchinProfile = <<>>
  /\ urchinSkills = <<>>
  /\ urchinEmbeddingCache = <<>>
  /\ tool = NoTool
  /\ composed = NoCompose
  /\ pass = NoPass
  /\ now = 0
  /\ ops = 0
  /\ timers = <<>>
  /\ Sequential

\* ------------------------------------------------------------------------
\* urchinLoop (lines 596-684)
\* ------------------------------------------------------------------------
\* LoopHead with the loop condition written step <= maxSteps
LoopHeadOffByOne(s, maxSteps) ==
  IF s <= maxSteps
  THEN /\ pc' = "await_model"
       /\ llmInFlight' = llmInFlight + 1
       /\ llmCalls' = llmCalls + 1
  ELSE /\ pc' = "persist"
       /\ UNCHANGED <<llmInFlight, llmCalls>>

\* the head of the for loop with the loop variable at s (line 621), then the
\* call of the model (line 624) or the exit to the code after the loop
LoopHead(s, maxSteps) ==
  IF s < maxSteps
  THEN /\ pc' = "await_model"
       /\ llmInFlight' = llmInFlight + 1
       /\ llmCalls' = llmCalls + 1
  ELSE /\ pc' = "persist"
       /\ UNCHANGED <<llmInFlight, llmCalls>>

\* the jobs of the iteration whose promise has not settled
PendingJobs == {i \in DOMAIN promises : promises[i].state = "pending"}

\* a call of urchinLoop, up to its first call of the model: the options, the
\* composed and trimmed stack, the first pass of the loop head (lines 597-624)
RequestHead(history, maxSteps, runPostJobs, stack) ==
  /\ pc \in {"idle", "returned", "thrown"}
  /\ requests' = requests + 1
  /\ opts' = [userInput |-> InputOf(requests + 1), history |-> history,
              maxSteps |-> maxSteps, tools |-> CustomTools,
              runPostJobs |-> runPostJobs]
  /\ messages' = trimMessagesToBudget(stack, MAX_CONTEXT_CHARS)
  /\ step' = 0
  /\ raw' = <<>>
  /\ finalAnswer' = <<>>
  /\ toolJobs' = <<>>
  /\ promises' = <<>>
  /\ settleOrder' = <<>>
  /\ behaved' = <<>>
  /\ failed' = FALSE
  /\ handlerCalls' = <<>>
  /\ outcome' = NoOutcome
  /\ IF 0 < maxSteps
     THEN pc' = "await_model" /\ llmInFlight' = llmInFlight + 1 /\ llmCalls' = 1
     ELSE pc' = "persist" /\ llmCalls' = 0 /\ UNCHANGED llmInFlight

\* a request on a store whose profile, memory-entry and skill regions are
\* empty
StartRequest(history, maxSteps, runPostJobs) ==
  /\ requests < MaxRequests
  /\ RequestHead(history, maxSteps, runPostJobs,
                 loadMemoryLayers(urchinCondensed, history,
                                  InputOf(requests + 1)))
  /\ UNCHANGED store

\* the promise of each job right after toolJobs.map(executeOne) (lines
\* 640-651): a job with no handler is settled, the others are running
StartJobs(jobs, customTools) ==
  [i \in 1..Len(jobs) |->
     IF Lookup(jobs[i].name, customTools) = "none"
     THEN executeOne(jobs[i].name, "none", "none")
     ELSE Pending]

\* the names of the jobs i..Len(jobs) that have a handler, which is called
RECURSIVE CalledFrom(_, _, _)
CalledFrom(jobs, customTools, i) ==
  IF i > Len(jobs) THEN <<>>
  ELSE (IF Lookup(jobs[i].name, customTools) = "none" THEN <<>>
        ELSE <<jobs[i].name>>) \o CalledFrom(jobs, customTools, i + 1)

\* the indices i..Len(jobs) of the jobs that have no handler
RECURSIVE UnknownFrom(_, _, _)
UnknownFrom(jobs, customTools, i) ==
  IF i > Len(jobs) THEN <<>>
  ELSE (IF Lookup(jobs[i].name, customTools) = "none" THEN <<i>> ELSE <<>>)
       \o UnknownFrom(jobs, customTools, i + 1)

\* FinalAnswerOf with the reply assigned before the think block is removed
FinalAnswerRaw(rawReply, cleaned) == rawReply

\* finalAnswer = cleaned (line 633)
FinalAnswerOf(rawReply, cleaned) == cleaned

\* the model answers r: parse, then either the final answer and the exit of
\* the loop, or the assistant entry and the start of the jobs (lines 624-651)
ModelReply(r) ==
  /\ pc = "await_model"
  /\ llmInFlight' = llmInFlight - 1
  /\ raw' = r
  /\ LET cleaned == Cleaned(r)
         jobs == ToolJobsOf(cleaned)
     IN  IF jobs = <<>>
         THEN /\ finalAnswer' = FinalAnswerOf(r, cleaned)
              /\ pc' = "persist"
              /\ UNCHANGED <<messages, jobState>>
         ELSE /\ toolJobs' = jobs
              /\ messages' = Append(messages,
                                    [role |-> "assistant", content |-> cleaned])
              /\ promises' = StartJobs(jobs, opts.tools)
              /\ handlerCalls' = handlerCalls \o CalledFrom(jobs, opts.tools, 1)
              /\ settleOrder' = UnknownFrom(jobs, opts.tools, 1)
              /\ behaved' = [i \in 1..Len(jobs) |-> "none"]
              /\ pc' = "dispatch"
              /\ UNCHANGED finalAnswer
  /\ UNCHANGED <<store, opts, step, outcome, llmCalls, failed, requests>>

\* ModelFail with the failure caught around the call and the loop left as if
\* the iterations were exhausted
ModelFailSwallowed ==
  /\ pc = "await_model"
  /\ llmInFlight' = llmInFlight - 1
  /\ pc' = "persist"
  /\ failed' = TRUE
  /\ UNCHANGED <<store, jobState, opts, messages, step, raw, finalAnswer,
                 outcome, llmCalls, requests>>

\* the model call fails: nothing in urchinLoop catches it
ModelFail ==
  /\ pc = "await_model"
  /\ llmInFlight' = llmInFlight - 1
  /\ pc' = "thrown"
  /\ outcome' = [kind |-> "error", answer |-> <<Lit("LLM error")>>]
  /\ failed' = TRUE
  /\ UNCHANGED <<store, jobState, opts, messages, step, raw, finalAnswer,
                 llmCalls, requests>>

\* the handler of job i behaves as b and the promise of executeOne settles
ToolSettle(i, b) ==
  /\ pc = "dispatch"
  /\ i \in PendingJobs
  /\ b \in BehavioursOf(toolJobs[i].name, opts.tools)
  /\ promises' = [promises EXCEPT
                    ![i] = executeOne(toolJobs[i].name,
                                      Lookup(toolJobs[i].name, opts.tools), b)]
  /\ settleOrder' = Append(settleOrder, i)
  /\ behaved' = [behaved EXCEPT ![i] = b]
  /\ UNCHANGED <<store, pc, opts, messages, step, raw, finalAnswer, toolJobs,
                 outcome, llmInFlight, llmCalls, handlerCalls, failed,
                 requests>>

\* AllFulfilled with the wait ending at the first fulfilled promise
FirstFulfilled == \E i \in DOMAIN promises : promises[i].state = "fulfilled"

\* await Promise.all(...), or the await of the single job: every promise is
\* fulfilled (lines 649-651)
AllFulfilled == \A i \in DOMAIN promises : promises[i].state = "fulfilled"

\* toolResults once the await is over
ToolResults == [i \in DOMAIN promises |-> promises[i].value]

\* ResultsEntry with the results taken in the order the promises settled
ResultsEntryAsSettled(jobs, results) ==
  [role |-> "user",
   content |-> Trim(RenderFrom(
                 [k \in 1..Len(settleOrder) |-> jobs[settleOrder[k]]],
                 [k \in 1..Len(settleOrder) |-> results[settleOrder[k]]], 1))]

\* the user entry pushed at line 662
ResultsEntry(jobs, results) ==
  [role |-> "user", content |-> Trim(RenderFrom(jobs, results, 1))]

\* every promise is fulfilled: the results are rendered and pushed, and the
\* loop goes to its next iteration (lines 649-663); the rendering throws on a
\* result with no serialization
FanIn ==
  /\ pc = "dispatch"
  /\ AllFulfilled
  /\ IF RenderThrows(ToolResults)
     THEN /\ pc' = "thrown"
          /\ outcome' = [kind |-> "error", answer |-> <<Lit("TypeError")>>]
          /\ UNCHANGED <<messages, step, llmInFlight, llmCalls>>
     ELSE /\ messages' = Append(messages, ResultsEntry(toolJobs, ToolResults))
          /\ step' = step + 1
          /\ LoopHead(step + 1, opts.maxSteps)
          /\ UNCHANGED outcome
  /\ UNCHANGED <<store, jobState, opts, raw, finalAnswer, failed, requests>>

\* a promise is rejected: Promise.all (or the single await) rejects at once
\* and urchinLoop throws; the promises of the handlers still running stay
\* pending, nothing waits for them any more
Abort ==
  /\ pc = "dispatch"
  /\ \E i \in DOMAIN promises : promises[i].state = "rejected"
  /\ pc' = "thrown"
  /\ outcome' = [kind |-> "error", answer |-> <<Lit("TypeError")>>]
  /\ UNCHANGED <<store, jobState, opts, messages, step, raw, finalAnswer,
                 llmInFlight, llmCalls, failed, requests>>

\* const newHistory = [...history, user turn, assistant turn] (line 666)
NewHistory(history, userInput, answer) ==
  history \o << [role |-> "user", text |-> userInput],
                [role |-> "assistant", text |-> answer] >>

\* PersistedChat with slice(0, MAX_CHAT_HISTORY): the oldest entries kept
PersistedChatOldest(stored, newHistory) ==
  SubSeq(stored \o LastN(newHistory, 2), 1,
         IF Len(stored) + 2 < MAX_CHAT_HISTORY THEN Len(stored) + 2
         ELSE MAX_CHAT_HISTORY)

\* the chat history written at lines 667-669
PersistedChat(stored, newHistory) ==
  LastN(stored \o LastN(newHistory, 2), MAX_CHAT_HISTORY)

\* answer: finalAnswer || 'No response.' (line 680)
AnswerOf(answer) == IF Size(answer) > 0 THEN answer ELSE <<Lit("No response.")>>

\* if (runPostJobs && finalAnswer) setTimeout(...) (lines 672-676)
SchedulesPostJobs(runPostJobs, answer) == runPostJobs /\ Size(answer) > 0

\* after the loop: the chat history is persisted, the maintenance pass is
\* scheduled and the result returned (lines 665-683)
PersistCore ==
  /\ pc = "persist"
  /\ urchinChatHistory' =
       PersistedChat(urchinChatHistory,
                     NewHistory(opts.history, opts.userInput, finalAnswer))
  /\ appended' = appended \o << [role |-> "user", text |-> opts.userInput],
                                [role |-> "assistant", text |-> finalAnswer] >>
  /\ scheduled' = IF SchedulesPostJobs(opts.runPostJobs, finalAnswer)
                  THEN scheduled + 1 ELSE scheduled
  /\ outcome' = [kind |-> "result", answer |-> AnswerOf(finalAnswer)]
  /\ pc' = "returned"
  /\ UNCHANGED <<urchinCondensed, jobState, opts, messages, step, raw,
                 finalAnswer, llmInFlight, llmCalls, failed, requests,
                 regions, raceVars>>

\* the end of a request, the scheduled passes being counted only
Persist == PersistCore /\ UNCHANGED timers

\* ------------------------------------------------------------------------
\* Specifications
\* ------------------------------------------------------------------------
Next ==
  \/ \E c \in Callers, m \in 1..MaxStepsOpt :
       StartRequest(c.history, m, c.runPostJobs)
  \/ \E r \in Replies : ModelReply(r)
  \/ ModelFail
  \/ \E i \in DOMAIN promises, b \in HandlerBehaviours \cup {"proto"} :
       ToolSettle(i, b)
  \/ FanIn
  \/ Abort
  \/ Persist

Spec == Init /\ [][Next]_vars

\* every model call, every tool handler and every storage call returns, and
\* the code between two awaits runs to its end
Returns ==
  \/ \E r \in Replies : ModelReply(r)
  \/ ModelFail
  \/ \E i \in DOMAIN promises, b \in HandlerBehaviours \cup {"proto"} :
       ToolSettle(i, b)
  \/ FanIn
  \/ Abort
  \/ Persist

FairSpec == Spec /\ WF_vars(Returns)

\* ------------------------------------------------------------------------
\* Properties
\* ------------------------------------------------------------------------
\* the kind of the first token of a text that is not whitespace
RECURSIVE FirstKind(_)
FirstKind(content) ==
  IF content = <<>> THEN "end"
  ELSE IF Head(content).t = "ws" THEN FirstKind(Tail(content))
  ELSE Head(content).t

\* the result lines of a rendered user entry: for each label, the tool name,
\* the serialized result after it, and whether a hint line follows
RECURSIVE LinesOf(_)
LinesOf(content) ==
  IF Len(content) < 2 THEN <<>>
  ELSE IF Head(content).t = "label"
       THEN << [name |-> content[1].name, json |-> content[2],
                hint |-> FirstKind(Tail(Tail(content))) = "hint"] >>
            \o LinesOf(Tail(Tail(content)))
       ELSE LinesOf(Tail(content))

LastMessage(msgs) == msgs[Len(msgs)]

Sentinel == <<Lit("No response.")>>

InLoop == pc \in {"await_model", "dispatch", "persist"}
Ended == pc \in {"returned", "thrown"}

\* C1: a request makes at most maxSteps loop model invocations, and when every
\* model call, tool handler and storage call returns, a request that has
\* started ends (urchinLoop returns or throws).
C1_BoundedLoop ==
  /\ [](llmCalls <= opts.maxSteps)
  /\ (InLoop ~> Ended)

\* C1 witness: a request that used every one of its maxSteps > 1 model
\* invocations has returned.
C1_Witness ==
  /\ pc = "returned"
  /\ opts.maxSteps > 1
  /\ llmCalls = opts.maxSteps

\* C2: a reply with tool tags makes the loop push the assistant entry with the
\* cleaned reply, and the iteration then ends with exactly one more entry, a
\* user entry with one result line per job, the loop variable one higher, and
\* the next model invocation (or, at the iteration cap, the exit of the loop).
C2_TwoEntriesThenNext ==
  [][ /\ (pc = "await_model" /\ pc' # "thrown"
           /\ ToolJobsOf(Cleaned(raw')) # <<>>)
         => /\ pc' = "dispatch"
            /\ messages' = Append(messages, [role |-> "assistant",
                                             content |-> Cleaned(raw')])
      /\ (pc = "dispatch" /\ pc' # "dispatch")
         => /\ Len(messages') = Len(messages) + 1
            /\ SubSeq(messages', 1, Len(messages)) = messages
            /\ LastMessage(messages').role = "user"
            /\ Len(LinesOf(LastMessage(messages').content)) = Len(toolJobs)
            /\ step' = step + 1
            /\ \/ pc' = "await_model" /\ llmCalls' = llmCalls + 1
               \/ pc' = "persist" /\ step' = opts.maxSteps
    ]_vars

\* C3: a reply with no tool tag ends the loop in that iteration: the answer
\* variable becomes the think-stripped reply, nothing is pushed on the stack,
\* no handler is called, and the request makes no further model invocation
\* before it returns.
C3_FinalReply ==
  [][ /\ (pc = "await_model" /\ pc' # "thrown"
           /\ ToolJobsOf(Cleaned(raw')) = <<>>)
         => /\ pc' = "persist"
            /\ finalAnswer' = Cleaned(raw')
            /\ messages' = messages
            /\ handlerCalls' = handlerCalls
            /\ llmCalls' = llmCalls
            /\ llmInFlight' = 0
      /\ (pc = "persist")
         => /\ pc' = "returned"
            /\ messages' = messages
            /\ handlerCalls' = handlerCalls
            /\ llmCalls' = llmCalls
            /\ llmInFlight' = 0
    ]_vars

\* C3 witness: after an iteration with tools, a reply made of a think block
\* and plain text was the final answer and the request has returned.
C3_Witness ==
  /\ pc = "returned"
  /\ step >= 1
  /\ FirstThink(raw) # <<>>
  /\ ToolJobsOf(Cleaned(raw)) = <<>>
  /\ finalAnswer = <<Lit("Done.")>>
  /\ outcome.answer = finalAnswer

\* C4: when an iteration's results are pushed, the user entry holds one result
\* line per job, line i carrying the name of job i and the result of job i, in
\* the order of the tags of the reply, whatever the order the handlers settled.
C4_ResultOrder ==
  [][ (pc = "dispatch" /\ pc' \in {"await_model", "persist"})
      => LET lines == LinesOf(LastMessage(messages').content)
         IN  /\ Len(lines) = Len(toolJobs)
             /\ \A i \in 1..Len(toolJobs) :
                  /\ lines[i].name = toolJobs[i].name
                  /\ lines[i].json.val = promises[i].value.val
                  /\ lines[i].json.error = promises[i].value.error
    ]_vars

\* C4 witness: three jobs settled in the order 3, 2, 1 and their results were
\* pushed in the order 1, 2, 3.
C4_Witness ==
  /\ pc \in {"await_model", "persist"}
  /\ step >= 1
  /\ settleOrder = <<3, 2, 1>>
  /\ Len(LinesOf(LastMessage(messages).content)) = 3
  /\ LinesOf(LastMessage(messages).content)[1].name = toolJobs[1].name
  /\ LinesOf(LastMessage(messages).content)[3].name = toolJobs[3].name

\* what a handler does when it throws
Throwing == {"throwMsg", "throwEmpty", "throwStr", "throwNull"}

\* C5: when the handler of a job of the iteration has thrown, the iteration
\* still ends with the results pushed and the loop going on: one result line
\* per job, the line of each job that threw carrying an error and followed by
\* a hint line.
C5_ThrowIsolated ==
  [][ (pc = "dispatch" /\ pc' # "dispatch"
        /\ \E i \in DOMAIN behaved : behaved[i] \in Throwing)
      => /\ pc' \in {"await_model", "persist"}
         /\ Len(messages') = Len(messages) + 1
         /\ LET lines == LinesOf(LastMessage(messages').content)
            IN  /\ Len(lines) = Len(toolJobs)
                /\ \A i \in 1..Len(toolJobs) :
                     behaved[i] \in Throwing
                     => /\ lines[i].name = toolJobs[i].name
                        /\ lines[i].json.error # NoError
                        /\ lines[i].hint
    ]_vars

\* C6: a job whose name is no tool of the registry has the result
\* {error: "Unknown tool: <name>"} and no handler is called for it.
C6_UnknownTool ==
  \A i \in DOMAIN toolJobs :
    toolJobs[i].name \notin AllTools(opts.tools)
    => /\ promises[i] =
            [state |-> "fulfilled",
             value |-> ErrorResult("Unknown tool: " \o toolJobs[i].name)]
       /\ \A k \in DOMAIN handlerCalls : handlerCalls[k] # toolJobs[i].name

\* C7: while a loop model invocation is in flight no tool job of the request
\* is still running, and at most one loop model invocation is in flight.
C7_Sequential ==
  /\ llmInFlight <= 1
  /\ llmInFlight > 0 => PendingJobs = {}

\* C7 witness: the model is invoked after an iteration of three jobs, all of
\* them settled, the last job of the reply first.
C7_Witness ==
  /\ pc = "await_model"
  /\ llmInFlight = 1
  /\ step >= 1
  /\ Len(promises) = 3
  /\ Len(settleOrder) = 3
  /\ settleOrder # <<1, 2, 3>>

\* C8: in the last iteration the cap allows (maxSteps model invocations made,
\* every reply with a tool tag) the loop ends without an error, and urchinLoop
\* returns a result whose answer is 'No response.'.
C8_ExhaustionReturns ==
  [][ /\ (pc = "dispatch" /\ llmCalls = opts.maxSteps /\ pc' # "dispatch")
         => pc' = "persist"
      /\ (pc = "persist" /\ step = opts.maxSteps)
         => /\ pc' = "returned"
            /\ outcome'.kind = "result"
            /\ outcome'.answer = Sentinel
    ]_vars

\* C9: once a loop model invocation of a request has failed, urchinLoop has
\* thrown and the request does nothing more: no model invocation, no entry
\* appended to the persisted chat history, no maintenance pass scheduled.
C9_ModelFailurePropagates ==
  [][ (failed' /\ requests' = requests)
      => /\ pc' = "thrown"
         /\ outcome'.kind = "error"
         /\ urchinChatHistory' = urchinChatHistory
         /\ scheduled' = scheduled
         /\ llmCalls' = llmCalls
         /\ llmInFlight' = 0
    ]_vars

\* C9 witness: the model call of a later iteration failed, after an iteration
\* with tools, and urchinLoop has thrown.
C9_Witness ==
  /\ pc = "thrown"
  /\ failed
  /\ outcome = [kind |-> "error", answer |-> <<Lit("LLM error")>>]
  /\ step >= 1
  /\ llmCalls = step + 1

\* C10: the persisted chat history holds at most MAX_CHAT_HISTORY entries,
\* and they are the most recently appended entries in the order they were
\* appended.
C10_ChatHistoryCap ==
  /\ Len(urchinChatHistory) <= MAX_CHAT_HISTORY
  /\ LET n == Len(appended)
         k == Len(urchinChatHistory)
     IN  /\ k = (IF n < MAX_CHAT_HISTORY THEN n ELSE MAX_CHAT_HISTORY)
         /\ \A i \in 1..k : urchinChatHistory[i] = appended[n - k + i]

\* C10 witness: two requests have completed on a store that held 199 entries:
\* 203 entries were appended in all and the oldest 3 are gone.
C10_Witness ==
  /\ pc = "returned"
  /\ requests = 2
  /\ Len(appended) = MAX_CHAT_HISTORY + 3
  /\ Len(urchinChatHistory) = MAX_CHAT_HISTORY
  /\ urchinChatHistory[MAX_CHAT_HISTORY].role = "assistant"
  /\ urchinChatHistory[1] = appended[4]

\* ========================================================================
\* The store regions behind the memory layers: urchinMemory, urchinProfile,
\* urchinSkills, urchinEmbeddingCache, urchinCondensed
\* ========================================================================

\* ------------------------------------------------------------------------
\* Plain objects
\*
\* An object of the store is the sequence of its properties in the order
\* Object.keys, Object.entries and the spread operator enumerate them:
\* the keys that are array indices ("0", "7", "42") in ascending numeric
\* order, then every other key in the order it was first assigned.  A
\* property is [k, v, at]: its key, its value, and (for the properties only,
\* not seen by the program) the hour at which the key was first assigned.
\*
\* A key is [pre, digits, n]: the prefix the code tests with startsWith, and
\* the rest of the name, which is the number n written in digits (digits =
\* TRUE) or the letter k followed by n.  Within one kind of key all numbers
\* are written with the same number of digits, as Date.now() is from 2001 to
\* 2286, so that the lexicographic order of two names is the order of their
\* numbers.
\* ------------------------------------------------------------------------
Key(pre, digits, n) == [pre |-> pre, digits |-> digits, n |-> n]
\* "k<n>": a key the model chose for REMEMBER or for a profile field
ManualKey(n) == Key("", FALSE, n)
\* "<n>": a key that is an array index
IndexKey(n) == Key("", TRUE, n)
\* `session_${Date.now()}` (line 506)
SessionKey(ts) == Key("session_", TRUE, ts)
\* "session_k<n>": a key the model chose for REMEMBER
NamedSessionKey(n) == Key("session_", FALSE, n)
\* "_convCount" (line 491)
CounterKey == Key("_", FALSE, 0)

\* the name of a key, as it is rendered into the current-turn message
KeyName(k) ==
  IF k.pre = "_" THEN "_convCount"
  ELSE k.pre \o (IF k.digits THEN "" ELSE "k") \o ToString(k.n)

\* k.startsWith('session_'), k.startsWith('_')
IsSessionKey(k) == k.pre = "session_"
IsHiddenKey(k) == k.pre = "_"
\* !k.startsWith('session_') && !k.startsWith('_') (lines 420, 430)
IsManualKey(k) == ~IsSessionKey(k) /\ ~IsHiddenKey(k)
\* the key is an array index: enumerated before every other key
IsArrayIndex(k) == k.pre = "" /\ k.digits

Prop(k, v, at) == [k |-> k, v |-> v, at |-> at]

\* the set of the elements of a sequence
Range(seq) == {seq[i] : i \in DOMAIN seq}

\* key in obj
ObjHas(obj, k) == \E i \in DOMAIN obj : obj[i].k = k
\* obj[key]
ObjGet(obj, k) == obj[CHOOSE i \in DOMAIN obj : obj[i].k = k].v
\* Object.keys(obj)
ObjKeys(obj) == [i \in DOMAIN obj |-> obj[i].k]

\* obj[key] = value at hour t: an existing key keeps its place, a new array
\* index goes among the array indices, any other new key goes last
ObjSet(obj, k, v, t) ==
  IF ObjHas(obj, k)
  THEN [i \in DOMAIN obj |->
          IF obj[i].k = k THEN [obj[i] EXCEPT !.v = v] ELSE obj[i]]
  ELSE IF IsArrayIndex(k)
  THEN LET p == Cardinality({i \in DOMAIN obj :
                               IsArrayIndex(obj[i].k) /\ obj[i].k.n < k.n})
       IN  SubSeq(obj, 1, p) \o <<Prop(k, v, t)>> \o SubSeq(obj, p + 1, Len(obj))
  ELSE Append(obj, Prop(k, v, t))

\* delete obj[k] for every k of ks
ObjDelete(obj, ks) == SelectSeq(obj, LAMBDA e : e.k \notin ks)

\* the properties ps, all with array-index keys, in ascending order of key
ByIndex(ps) ==
  [r \in 1..Cardinality(ps) |->
     CHOOSE x \in ps : Cardinality({y \in ps : y.k.n < x.k.n}) = r - 1]

\* { ...a, ...b } at hour t, b an object: the keys of a keep their place and
\* take the value b has for them, the new array indices of b go among the
\* array indices, the other new keys of b go last in the order of b
Spread(a, b, t) ==
  LET given == Range(ObjKeys(b))
      held == Range(ObjKeys(a))
      kept == [i \in DOMAIN a |->
                 IF a[i].k \in given THEN [a[i] EXCEPT !.v = ObjGet(b, a[i].k)]
                 ELSE a[i]]
      fresh == [i \in DOMAIN b |-> Prop(b[i].k, b[i].v, t)]
      new == SelectSeq(fresh, LAMBDA x : x.k \notin held)
  IN  ByIndex(Range(SelectSeq(kept, LAMBDA x : IsArrayIndex(x.k)))
              \cup Range(SelectSeq(new, LAMBDA x : IsArrayIndex(x.k))))
      \o SelectSeq(kept, LAMBDA x : ~IsArrayIndex(x.k))
      \o SelectSeq(new, LAMBDA x : ~IsArrayIndex(x.k))

\* Array.prototype.slice(0, n): the first n elements
FirstN(seq, n) == IF Len(seq) <= n THEN seq ELSE SubSeq(seq, 1, n)

\* a < b for two key names that start with 'session_', in the order of
\* Array.prototype.sort(): a digit sorts before the letter k
NameBefore(a, b) ==
  \/ a.digits /\ ~b.digits
  \/ a.digits = b.digits /\ a.n < b.n

\* keys.sort() of keys that start with 'session_'
RECURSIVE SortNames(_)
SortNames(keys) ==
  IF keys = <<>> THEN <<>>
  ELSE LET h == Head(keys)
           rest == SortNames(Tail(keys))
       IN  SelectSeq(rest, LAMBDA x : NameBefore(x, h)) \o <<h>>
           \o SelectSeq(rest, LAMBDA x : ~NameBefore(x, h))

\* Array.prototype.reverse()
Reverse(seq) == [i \in DOMAIN seq |-> seq[Len(seq) + 1 - i]]

\* ------------------------------------------------------------------------
\* REMEMBER (lines 275-287)
\* ------------------------------------------------------------------------
\* the key of a REMEMBER parameter that has none: {"value": ...}
NoKey == Key("", FALSE, 0)

\* urchinMemory after REMEMBER {key, value} at hour t: nothing is written
\* without a key, and no entry is ever removed
remember(memory, key, value, t) ==
  IF key = NoKey THEN memory ELSE ObjSet(memory, key, value, t)

\* ------------------------------------------------------------------------
\* Embeddings: getEmbedding, cosineSimilarity, and the keyword score
\* (lines 98-127, 199-202)
\*
\* What the embedding service answers and how similar it finds two texts is
\* outside the program.  A behaviour e of the service says whether
\* getEmbedding returns a vector (e.emb) and names the way the entries score
\* against the query (e.sim); scores are in hundredths.
\* ------------------------------------------------------------------------
EmbeddingBehaviours ==
  { [emb |-> TRUE, sim |-> "all"],
    [emb |-> TRUE, sim |-> "none"],
    [emb |-> FALSE, sim |-> "manual"] }

\* the score of the entry with key k
Sim(e, k) ==
  CASE e.sim = "all" -> 90
    [] e.sim = "none" -> 0
    [] e.sim = "manual" ->
         IF IsSessionKey(k) THEN 10 ELSE 40 + (k.n % 3) * 10

\* the scores Sim can give, greatest first
SimLevels == <<90, 60, 50, 40, 10, 0>>

\* s.sim > 0.2 (line 214) and sim > 0.25 (line 163), in hundredths
FILTER_MIN_SIM == 20
RECALL_MIN_SIM == 25
\* maxResults at the call of line 446, and matches.slice(0, 10) at line 176
FILTER_MAX_RESULTS == 10
RECALL_MAX_RESULTS == 10

\* the vector getEmbedding computes from the text of an entry
Vector(v) == [of |-> v]

\* the for loops of lines 153-165 and 185-203 on the cache: every entry that
\* is not hidden and has no vector gets one, in the order of the entries
AddVectors(cache, entries, t) ==
  LET cached == Range(ObjKeys(cache))
      fresh == SelectSeq(entries,
                         LAMBDA x : ~IsHiddenKey(x.k) /\ x.k \notin cached)
  IN  Spread(cache, [i \in DOMAIN fresh |-> Prop(fresh[i].k, Vector(fresh[i].v), t)],
             t)

\* for (const k of keys.slice(0, keys.length - 300)) delete cache[k]
\* (lines 168-171, 206-209)
EvictEmbeddings(cache) == LastN(cache, MAX_EMBEDDINGS)

\* the cache the function leaves in the store: untouched unless a vector
\* was added
CacheAfter(cache, entries, e, t) ==
  IF e.emb /\ AddVectors(cache, entries, t) # cache
  THEN EvictEmbeddings(AddVectors(cache, entries, t))
  ELSE cache

\* scored.sort((a, b) => b.sim - a.sim) of the entries that pass the
\* threshold: greatest score first, entries of equal score in their order
RECURSIVE SortBySim(_, _, _, _)
SortBySim(entries, e, min, l) ==
  IF l > Len(SimLevels) THEN <<>>
  ELSE (IF SimLevels[l] > min
        THEN SelectSeq(entries, LAMBDA x : Sim(e, x.k) = SimLevels[l])
        ELSE <<>>) \o SortBySim(entries, e, min, l + 1)

\* relevanceFilterMemories (lines 179-215): the entries it returns and the
\* cache it leaves
relevanceFilterMemories(memories, cache, e, maxResults, t) ==
  LET visible == SelectSeq(memories, LAMBDA x : ~IsHiddenKey(x.k))
  IN  [ relevant |-> FirstN(SortBySim(visible, e, FILTER_MIN_SIM, 1), maxResults),
        cache |-> CacheAfter(cache, memories, e, t) ]

\* semanticRecallWithEmbeddings (lines 145-177): without a query vector the
\* keyword fallback, which leaves the cache alone
semanticRecallWithEmbeddings(memory, cache, e, t) ==
  LET visible == SelectSeq(memory, LAMBDA x : ~IsHiddenKey(x.k))
  IN  [ matches |-> FirstN(SortBySim(visible, e, RECALL_MIN_SIM, 1),
                           RECALL_MAX_RESULTS),
        method |-> IF e.emb THEN "embeddings" ELSE "keyword",
        cache |-> CacheAfter(cache, memory, e, t) ]

\* the key `profile_${k}` of SEARCH_MEMORY (line 307)
ProfiledKey(k) == Key("profile_", k.digits, k.n)

\* { ...urchinMemory, ...profile entries under profile_ keys } (lines 305-308)
Combined(memory, profile, t) ==
  Spread(memory, [i \in DOMAIN profile |->
                    Prop(ProfiledKey(profile[i].k), profile[i].v, t)], t)

\* ------------------------------------------------------------------------
\* loadMemoryLayers, layers 4 to 6 (lines 408-482)
\* ------------------------------------------------------------------------
\* lines.join(sep): the first half of the lines joined, the separator, the
\* second half joined
RECURSIVE Join(_, _)
Join(lines, sep) ==
  IF lines = <<>> THEN <<>>
  ELSE IF Len(lines) = 1 THEN lines[1]
  ELSE Join(SubSeq(lines, 1, Len(lines) \div 2), sep) \o sep
       \o Join(SubSeq(lines, Len(lines) \div 2 + 1, Len(lines)), sep)

\* the name of a key as text
KeyText(k) == Blob(KeyName(k), Len(KeyName(k)))

\* `  ${k}: ${v}`
EntryLine(k, v) == <<Lit("  "), KeyText(k), Lit(": ")>> \o v

\* `\n\n[${title}\n${text}]` appended to the current-turn message
Block(title, text) == <<NL, NL, Lit("["), title, NL>> \o text \o <<Lit("]")>>

\* '\n---\n' between two session summaries
Rule == <<NL, Lit("---"), NL>>

\* Layer 4 (lines 408-416): Object.entries(urchinProfile).slice(-50)
ProfileEntries(profile) == LastN(profile, MAX_PROFILE_KEYS)

\* the profile is written back if it holds more than 50 keys (lines 411-413)
ProfileWritten(profile) == Len(profile) > MAX_PROFILE_KEYS

ProfileBlock(profile) ==
  IF Len(profile) > 0
  THEN Block(Lit("User profile (permanent):"),
             Join([i \in DOMAIN ProfileEntries(profile) |->
                     EntryLine(ProfileEntries(profile)[i].k,
                               ProfileEntries(profile)[i].v)], <<NL>>))
  ELSE <<>>

\* Layer 5 (lines 418-464)
\* sessionKeys: the keys that start with 'session_', sorted, reversed
SessionKeys(memory) ==
  Reverse(SortNames(SelectSeq(ObjKeys(memory), IsSessionKey)))

\* manualKeys, currentManualKeys
ManualKeys(memory) == SelectSeq(ObjKeys(memory), IsManualKey)

\* more than 100 manual keys: the first ones of manualKeys are deleted and
\* the region is written (lines 422-426)
ManualEvicted(memory) ==
  IF Len(ManualKeys(memory)) > MAX_MANUAL_KEYS
  THEN ObjDelete(memory,
                 Range(FirstN(ManualKeys(memory),
                              Len(ManualKeys(memory)) - MAX_MANUAL_KEYS)))
  ELSE memory

\* allMemEntries: a new object assigned the first 20 of sessionKeys, then
\* the manual keys (lines 428-431); it enumerates the manual keys that are
\* array indices first, which urchinMemory already holds in ascending order
AllMemEntries(memory) ==
  LET sess == FirstN(SessionKeys(memory), MAX_SESSION_SUMMARIES)
      man == SelectSeq(memory, LAMBDA x : IsManualKey(x.k))
  IN  SelectSeq(man, LAMBDA x : IsArrayIndex(x.k))
      \o [i \in DOMAIN sess |-> Prop(sess[i], ObjGet(memory, sess[i]), 0)]
      \o SelectSeq(man, LAMBDA x : ~IsArrayIndex(x.k))

\* totalEntries <= 6 (line 436)
FILTER_FROM == 6

\* Filtered with the filter starting at 6 entries
FilteredFromSix(totalEntries) == totalEntries >= FILTER_FROM

\* the else branch of line 436 is taken: the relevance filter is called
Filtered(totalEntries) == ~(totalEntries <= FILTER_FROM)
\* sessionKeys.slice(0, 10) (line 438), currentManualKeys.length <= 10 (line 460)
UNFILTERED_SESSIONS == 10
SAVED_FALLBACK == 10

\* the session keys injected by the filtered branch: the relevant ones, then
\* sessionKeys[0] (lines 447-451)
SessionSet(relevant, sessionKeys) ==
  LET rel == SelectSeq([i \in DOMAIN relevant |-> relevant[i].k], IsSessionKey)
  IN  IF sessionKeys # <<>> /\ sessionKeys[1] \notin Range(rel)
      THEN Append(rel, sessionKeys[1]) ELSE rel

SavedBlock(memory, keys) ==
  Block(Lit("Saved memories:"),
        Join([i \in DOMAIN keys |-> EntryLine(keys[i], ObjGet(memory, keys[i]))],
             <<NL>>))

\* the text layer 5 appends, given the memory after the eviction and what
\* the relevance filter returned
MemoryBlock(memory, relevant) ==
  LET sessionKeys == SessionKeys(memory)
      manualKeys == ManualKeys(memory)
  IN  IF ~Filtered(Len(AllMemEntries(memory)))
      THEN (IF Len(sessionKeys) > 0
            THEN LET shown == FirstN(sessionKeys, UNFILTERED_SESSIONS)
                 IN  Block(Lit("Past session summaries:"),
                           Join([i \in DOMAIN shown |-> ObjGet(memory, shown[i])],
                                Rule))
            ELSE <<>>)
           \o (IF Len(manualKeys) > 0 THEN SavedBlock(memory, manualKeys)
               ELSE <<>>)
      ELSE LET set == SessionSet(relevant, sessionKeys)
               texts == SelectSeq([i \in DOMAIN set |-> ObjGet(memory, set[i])],
                                  LAMBDA v : Size(v) > 0)
               relMan == SelectSeq(relevant, LAMBDA r : ~IsSessionKey(r.k))
           IN  (IF Len(set) > 0
                THEN Block(Blob("Relevant session summaries (n/m total):", 40),
                           Join(texts, Rule))
                ELSE <<>>)
               \o (IF Len(relMan) > 0
                   THEN Block(Blob("Relevant memories (n/m total):", 31),
                              Join([i \in DOMAIN relMan |->
                                      EntryLine(relMan[i].k, relMan[i].v)],
                                   <<NL>>))
                   ELSE IF Len(manualKeys) > 0 /\ Len(manualKeys) <= SAVED_FALLBACK
                   THEN SavedBlock(memory, manualKeys)
                   ELSE <<>>)

\* Layer 6 (lines 466-480)
\* s.f ?? d, s.f || d: a field the skill does not have counts as d
Field(s, f, d) == IF f \in DOMAIN s THEN s[f] ELSE d
\* s.f = v
With(s, f, v) == [x \in DOMAIN s \cup {f} |-> IF x = f THEN v ELSE s[x]]

\* s.score ?? 50
DEFAULT_SCORE == 50
Score(s) == Field(s, "score", DEFAULT_SCORE)

\* (s.score ?? 50) > 15
VIABLE_ABOVE == 15

\* Viable with the threshold itself counted as viable
ViableFromThreshold(s) == Score(s) >= VIABLE_ABOVE

Viable(s) == Score(s) > VIABLE_ABOVE

\* the skill list after the map of lines 471-476: the viable skills used once
\* more, at hour t
SkillsUsed(skills, t) ==
  [i \in DOMAIN skills |->
     IF Viable(skills[i])
     THEN With(With(skills[i], "usageCount",
                    Field(skills[i], "usageCount", 0) + 1),
               "lastUsedAt", t)
     ELSE skills[i]]

\* activeSkillNames
ActiveSkillNames(skills) ==
  LET viable == SelectSeq(skills, Viable)
  IN  [i \in DOMAIN viable |-> viable[i].name]

\* the skill list is written if a skill is viable (line 478)
SkillsWritten(skills) == \E i \in DOMAIN skills : Viable(skills[i])

SkillBlock(skills) ==
  LET viable == SelectSeq(skills, Viable)
  IN  IF Len(viable) > 0
      THEN Block(Lit("Learned skills (apply these):"),
                 Join([i \in DOMAIN viable |->
                         << Lit("  * "), Lit(viable[i].name),
                            Blob("[score:]: ", 12),
                            [t |-> "text", s |-> "score", n |-> 2,
                             score |-> Score(viable[i])],
                            Lit(viable[i].instruction) >>], <<NL>>))
      ELSE <<>>

\* messages[messages.length - 1].content += text
ExtendLast(msgs, text) ==
  [msgs EXCEPT ![Len(msgs)].content = msgs[Len(msgs)].content \o text]

\* ------------------------------------------------------------------------
\* runPostResponseJobs (lines 489-590)
\* ------------------------------------------------------------------------
\* String.prototype.slice(-k): the last k characters; a token the cut falls
\* in keeps its last characters, off of its characters being dropped
RECURSIVE TailSlice(_, _)
TailSlice(content, k) ==
  IF content = <<>> \/ k <= 0 THEN <<>>
  ELSE LET l == content[Len(content)]
           front == SubSeq(content, 1, Len(content) - 1)
       IN  IF TokLen(l) <= k
           THEN TailSlice(front, k - TokLen(l)) \o <<l>>
           ELSE << [t |-> "text", s |-> IF l.t = "text" THEN l.s ELSE "cut",
                    n |-> k, off |-> TokLen(l) - k] >>

\* the value of _convCount: the decimal digits of c
Count(c) == << [t |-> "text", s |-> "count", n |-> Len(ToString(c)), count |-> c] >>

\* parseInt(urchinMemory._convCount || '0', 10) + 1 (line 491)
ConvCount(memory) ==
  (IF ObjHas(memory, CounterKey) THEN ObjGet(memory, CounterKey)[1].count ELSE 0)
  + 1

\* the cadences of the jobs (lines 495, 518, 556) and the stack sizes they need
SESSION_EVERY == 3
PROFILE_EVERY == 5
EVAL_EVERY == 10
MIN_MESSAGES == 3
MIN_EVAL_MESSAGES == 4

SessionDue(count, msgs) == count % SESSION_EVERY = 0 /\ msgs >= MIN_MESSAGES
ProfileDue(count, msgs) == count % PROFILE_EVERY = 0 /\ msgs >= MIN_MESSAGES
EvalDue(count, msgs, active) ==
  count % EVAL_EVERY = 0 /\ Len(active) > 0 /\ msgs >= MIN_EVAL_MESSAGES

\* what a call of the model by a job gave: it failed, or it returned text
Failed == [kind |-> "fail"]

\* A) the summary stored under session_<now>, then the oldest names deleted
\* down to 20 (lines 506-512)
SessionStored(memory, summary, t) ==
  LET m == ObjSet(memory, SessionKey(t), Slice(summary, MAX_SESSION_CHARS), t)
      sessionKeys == SortNames(SelectSeq(ObjKeys(m), IsSessionKey))
  IN  IF Len(sessionKeys) > MAX_SESSION_SUMMARIES
      THEN ObjDelete(m, Range(FirstN(sessionKeys,
                                     Len(sessionKeys) - MAX_SESSION_SUMMARIES)))
      ELSE m

\* urchinMemory as line 515 writes it: the counter, and the summary if the
\* job was due and its model call returned
MemoryAfterPass(memory, msgs, summary, t) ==
  LET count == ConvCount(memory)
      m == ObjSet(memory, CounterKey, Count(count), t)
  IN  IF SessionDue(count, msgs) /\ summary.kind = "text"
      THEN SessionStored(m, summary.text, t)
      ELSE m

\* B) extractJSON(profileRaw) || {}: the properties of the parsed value, none
\* when the call failed or its output holds no JSON (lines 531-535)
NewProfile(out) == IF out.kind = "json" THEN out.props ELSE <<>>

\* ProfileAfterPass with the new object stored in the place of the profile
ProfileAfterPassReplaced(profile, count, msgs, out, t) ==
  IF ProfileDue(count, msgs) /\ Len(NewProfile(out)) > 0
  THEN Spread(<<>>, NewProfile(out), t)
  ELSE profile

ProfileAfterPass(profile, count, msgs, out, t) ==
  IF ProfileDue(count, msgs) /\ Len(NewProfile(out)) > 0
  THEN Spread(profile, NewProfile(out), t)
  ELSE profile

\* C) history.length > 40, history.slice(0, history.length - 30), and
\* String(h.text).slice(0, 200) of the fallback (lines 540-551)
CONDENSE_FROM == 40
CONDENSE_KEEP == 30
FALLBACK_TURN_CHARS == 200

CondenseDue(history) == Len(history) > CONDENSE_FROM

\* `[${h.role}] ${String(h.text).slice(0, 200)}` joined by '\n'
OldText(history) ==
  LET oldMessages == FirstN(history, Len(history) - CONDENSE_KEEP)
  IN  Join([i \in DOMAIN oldMessages |->
              <<Blob("[role] ", Len(oldMessages[i].role) + 3)>>
              \o Slice(oldMessages[i].text, FALLBACK_TURN_CHARS)], <<NL>>)

\* newCondensed of the fallback (line 550)
NewCondensed(condensed, history) ==
  (IF Size(condensed) > 0 THEN condensed \o Rule ELSE <<>>) \o OldText(history)

\* the text the condensation has before the cap is applied
Uncut(condensed, history, out) ==
  IF out.kind = "text" THEN out.text ELSE NewCondensed(condensed, history)

\* the cap on the narrative the model returned: slice(0, 4000) (line 546)
CapNarrative(text) == Slice(text, MAX_CONDENSED_CHARS)
\* the cap of the fallback: slice(-4000) (line 551)
CapFallback(text) == TailSlice(text, MAX_CONDENSED_CHARS)

CondensedAfterPass(condensed, history, out) ==
  IF ~CondenseDue(history) THEN condensed
  ELSE IF out.kind = "text" THEN CapNarrative(out.text)
  ELSE CapFallback(NewCondensed(condensed, history))

\* D) the score update of line 573, the evaluation e given in tenths:
\* Math.round(oldScore * 0.6 + Math.max(0, Math.min(100, e)) * 0.4)
Clamp(x, lo, hi) == IF x < lo THEN lo ELSE IF x > hi THEN hi ELSE x

\* NewScore with Math.floor in the place of Math.round
NewScoreFloored(oldScore, e10) == (60 * oldScore + 4 * Clamp(e10, 0, 1000)) \div 100

NewScore(oldScore, e10) == (60 * oldScore + 4 * Clamp(e10, 0, 1000) + 50) \div 100

\* the body of the for loop of lines 569-577 for one property of scores:
\* the first skill of that name, if the value is a number
Evaluated(skills, name, val, t) ==
  IF val.num /\ \E i \in DOMAIN skills : skills[i].name = name
  THEN LET i == CHOOSE j \in DOMAIN skills :
                  /\ skills[j].name = name
                  /\ \A l \in 1..(j - 1) : skills[l].name # name
       IN  [skills EXCEPT
              ![i] = With(With(With(skills[i], "score",
                                    NewScore(Score(skills[i]), val.e10)),
                               "lastEvalAt", t),
                          "evalCount", Field(skills[i], "evalCount", 0) + 1)]
  ELSE skills

RECURSIVE EvaluatedAll(_, _, _)
EvaluatedAll(skills, scores, t) ==
  IF scores = <<>> THEN skills
  ELSE EvaluatedAll(Evaluated(skills, Head(scores).name, Head(scores).val, t),
                    Tail(scores), t)

\* the three conditions of the filter of lines 578-584; the clock counts
\* hours, 30 days are 720 of them
LOW_SCORE == 10
MIN_EVALS == 2
MANY_USES == 30
WEAK_SCORE == 20
PRUNE_AGE == 720

\* MeetsPrune with the age condition left out
MeetsPruneNoAge(s, t) ==
  \/ Score(s) <= LOW_SCORE /\ Field(s, "evalCount", 0) >= MIN_EVALS
  \/ Field(s, "usageCount", 0) > MANY_USES /\ Score(s) <= WEAK_SCORE

MeetsPrune(s, t) ==
  \/ Score(s) <= LOW_SCORE /\ Field(s, "evalCount", 0) >= MIN_EVALS
  \/ Field(s, "usageCount", 0) > MANY_USES /\ Score(s) <= WEAK_SCORE
  \/ t - Field(s, "learnedAt", 0) > PRUNE_AGE /\ Field(s, "usageCount", 0) = 0

\* const pruned = urchinSkills.filter(...)
pruned(skills, t) == SelectSeq(skills, LAMBDA s : ~MeetsPrune(s, t))

\* the evaluation reaches the score loop: the job is due, a stored skill is
\* active, and the output of the model parsed to an object with scores
EvalParsed(skills, count, msgs, active, out) ==
  /\ EvalDue(count, msgs, active)
  /\ \E i \in DOMAIN skills : skills[i].name \in Range(active)
  /\ out.kind = "scores"

SkillsAfterPass(skills, count, msgs, active, out, t) ==
  IF EvalParsed(skills, count, msgs, active, out)
  THEN pruned(EvaluatedAll(skills, out.scores, t), t)
  ELSE skills

\* ------------------------------------------------------------------------
\* Inputs of the operations on the store
\* ------------------------------------------------------------------------
\* the value of a manual entry or of a profile field, a session summary
Fact(n) == <<Blob("fact", 10 + n)>>
Summary(ts) == <<Blob("summary", ts - 900)>>

\* the hour at which the model starts; the summaries of the store were
\* written at the hours 1001..1020
StartClock == 2000
FirstSession == 1001

\* the keys k<a>..k<b> with their values, assigned in that order
Facts(a, b) == [i \in 1..(b - a + 1) |-> Prop(ManualKey(a + i - 1), Fact(a + i - 1), a + i - 1)]
\* n session summaries
Sessions(n) ==
  [i \in 1..n |-> Prop(SessionKey(FirstSession + i - 1),
                       Summary(FirstSession + i - 1), FirstSession + i - 1)]

\* the skills the store starts with: one with no score and no counts yet,
\* one scored just above the threshold, one much used, one never used and
\* learned long ago
StartSkills ==
  << [name |-> "fresh", instruction |-> "cite sources", learnedAt |-> 1990],
     [name |-> "tidy", instruction |-> "use tables", score |-> 16,
      usageCount |-> 5, evalCount |-> 1, learnedAt |-> 1990],
     [name |-> "worn", instruction |-> "be brief", score |-> 20,
      usageCount |-> 30, evalCount |-> 0, learnedAt |-> 1990],
     [name |-> "stale", instruction |-> "use emoji", score |-> 15,
      usageCount |-> 0, learnedAt |-> 0] >>

\* the values the conversation counter starts with
StartCounts == {2, 9, 29}

\* a store with few entries: 2 summaries and 4 manual entries
SmallStore(c) ==
  [ memory |-> <<Prop(CounterKey, Count(c), 1000)>> \o Sessions(2)
               \o Facts(297, 300),
    profile |-> Facts(1, 2),
    cache |-> <<>>,
    condensed |-> <<Lit("narrative")>> ]

\* a store with every region at its cap: 20 summaries, 100 manual entries,
\* a vector for each of them and for 180 entries that are gone, and a
\* profile of 51 fields as a profile extraction leaves it, its last
\* assigned field being "0"
FullStore(c) ==
  [ memory |-> <<Prop(CounterKey, Count(c), 1000)>> \o Sessions(MAX_SESSION_SUMMARIES)
               \o Facts(201, 300),
    profile |-> <<Prop(IndexKey(0), Fact(0), 1999)>> \o Facts(1, MAX_PROFILE_KEYS),
    cache |-> [i \in 1..280 |-> Prop(ManualKey(20 + i), Vector(Fact(20 + i)), 20 + i)]
              \o [i \in 1..MAX_SESSION_SUMMARIES |->
                    Prop(SessionKey(FirstSession + i - 1),
                         Vector(Summary(FirstSession + i - 1)),
                         FirstSession + i - 1)],
    condensed |-> <<Blob("narrative", 3900)>> ]

Stores == {SmallStore(c) : c \in StartCounts} \cup {FullStore(c) : c \in StartCounts}

\* the keys the model gives REMEMBER: one the store holds, a new one, an
\* array index, a name that starts with 'session_', none
RememberKeys ==
  {ManualKey(300), ManualKey(301), IndexKey(7), NamedSessionKey(1), NoKey}

\* options.history of n turns, each of 250 characters
HistoryOf(n) ==
  [i \in 1..n |-> [role |-> IF i % 2 = 1 THEN "user" ELSE "assistant",
                   text |-> <<Blob("turn", 250)>>]]

Text(content) == [kind |-> "text", text |-> content]
Json(props) == [kind |-> "json", props |-> props]
Garbage == [kind |-> "garbage"]
Scores(scores) == [kind |-> "scores", scores |-> scores]
Number(e10) == [num |-> TRUE, e10 |-> e10]
NotANumber == [num |-> FALSE, e10 |-> 0]

\* a narrative of 5000 characters, its parts in the order of the events
LongNarrative ==
  << Blob("era1", 1000), Blob("era2", 1000), Blob("era3", 1000),
     Blob("era4", 1000), Blob("era5", 1000) >>

\* a score object that names every stored skill and one that is not stored
GoodScores ==
  Scores(<< [name |-> "tidy", val |-> Number(0)],
            [name |-> "worn", val |-> Number(200)],
            [name |-> "fresh", val |-> Number(905)],
            [name |-> "stale", val |-> NotANumber],
            [name |-> "unknown", val |-> Number(500)] >>)

\* what a maintenance pass is given and what happens to its calls: the size
\* of the stack, options.history, the four outputs of the model, and the
\* regions of the store whose storage.set throws during the pass
PassInputs ==
  { [ msgs |-> 4, history |-> HistoryOf(45),
      summary |-> Text(<<Blob("bullets", 100)>>),
      profile |-> Json(<<Prop(ManualKey(2), Fact(99), 0),
                         Prop(ManualKey(60), Fact(60), 0)>>),
      condense |-> Text(<<Blob("dense", 1200)>>),
      eval |-> GoodScores, down |-> {} ],
    [ msgs |-> 4, history |-> HistoryOf(45),
      summary |-> Failed, profile |-> Failed, condense |-> Failed,
      eval |-> Failed, down |-> {} ],
    [ msgs |-> 4, history |-> HistoryOf(45),
      summary |-> Text(<<Blob("bullets", 100)>>),
      profile |-> Json(<<>>),
      condense |-> Text(<<Blob("dense", 1200)>>),
      eval |-> GoodScores, down |-> {"urchinCondensed"} ],
    [ msgs |-> 4, history |-> HistoryOf(45),
      summary |-> Text(<<Blob("bullets", 100)>>),
      profile |-> Json(<<Prop(ManualKey(60), Fact(60), 0)>>),
      condense |-> Failed,
      eval |-> GoodScores, down |-> {"urchinProfile"} ],
    [ msgs |-> 4, history |-> HistoryOf(45),
      summary |-> Text(<<Blob("bullets", 2000)>>),
      profile |-> Json(<<Prop(IndexKey(0), <<Lit("n")>>, 0),
                         Prop(IndexKey(1), <<Lit("o")>>, 0)>>),
      condense |-> Text(LongNarrative),
      eval |-> Scores(<<>>), down |-> {} ],
    [ msgs |-> 1, history |-> HistoryOf(2),
      summary |-> Text(<<Blob("bullets", 100)>>),
      profile |-> Json(<<Prop(ManualKey(60), Fact(60), 0)>>),
      condense |-> Text(<<Blob("dense", 1200)>>),
      eval |-> Scores(<<>>), down |-> {} ],
    [ msgs |-> 4, history |-> HistoryOf(2),
      summary |-> Failed, profile |-> Garbage, condense |-> Failed,
      eval |-> Garbage, down |-> {} ] }

\* ------------------------------------------------------------------------
\* Operations on the store: the memory tools, loadMemoryLayers and
\* runPostResponseJobs, each run from its first line to its last with no
\* other operation between its storage calls
\* ------------------------------------------------------------------------
\* the variables of a request in the reasoning loop
requestVars ==
  << urchinChatHistory, pc, opts, messages, step, raw, finalAnswer, toolJobs,
     promises, outcome, scheduled, llmInFlight, llmCalls, handlerCalls,
     settleOrder, behaved, failed, appended, requests, timers >>

loopVars == <<requestVars, raceVars>>

\* no request is running and none has run
LoopIdle ==
  /\ urchinChatHistory = <<>>
  /\ appended = <<>>
  /\ pc = "idle"
  /\ opts = [userInput |-> <<>>, history |-> <<>>, maxSteps |-> 0,
             tools |-> {}, runPostJobs |-> TRUE]
  /\ messages = <<>>
  /\ step = 0
  /\ raw = <<>>
  /\ finalAnswer = <<>>
  /\ toolJobs = <<>>
  /\ promises = <<>>
  /\ outcome = NoOutcome
  /\ scheduled = 0
  /\ llmInFlight = 0
  /\ llmCalls = 0
  /\ handlerCalls = <<>>
  /\ settleOrder = <<>>
  /\ behaved = <<>>
  /\ failed = FALSE
  /\ requests = 0
  /\ timers = <<>>

\* the store as earlier runs of the program left it, no request running
StoreInit ==
  /\ \E st \in Stores :
       /\ urchinMemory = st.memory
       /\ urchinProfile = st.profile
       /\ urchinEmbeddingCache = st.cache
       /\ urchinCondensed = st.condensed
  /\ urchinSkills = StartSkills
  /\ tool = NoTool
  /\ composed = NoCompose
  /\ pass = NoPass
  /\ now = StartClock
  /\ ops = 0
  /\ LoopIdle
  /\ Sequential

\* the clock advances and the operation is counted
Tick ==
  /\ ops < MaxOps
  /\ ops' = ops + 1
  /\ now' = now + 1

\* <<TOOL:REMEMBER:{"key": k, "value": v}>> (lines 275-287)
Remember(k, v) ==
  /\ Tick
  /\ urchinMemory' = remember(urchinMemory, k, v, now)
  /\ tool' = [op |-> ops + 1, name |-> "REMEMBER", key |-> k,
              success |-> k # NoKey, embedded |-> {}]
  /\ UNCHANGED <<urchinProfile, urchinSkills, urchinEmbeddingCache,
                 urchinCondensed, composed, pass, loopVars>>

\* the keys for which the call computed a vector
Embedded(cache, entries, e) ==
  IF e.emb
  THEN {entries[i].k : i \in {j \in DOMAIN entries :
                                ~IsHiddenKey(entries[j].k)
                                /\ ~ObjHas(cache, entries[j].k)}}
  ELSE {}

\* <<TOOL:SEARCH_MEMORY:query>> (lines 302-314)
SearchMemory(e) ==
  /\ Tick
  /\ LET combined == Combined(urchinMemory, urchinProfile, now)
         found == semanticRecallWithEmbeddings(combined, urchinEmbeddingCache,
                                               e, now)
     IN  /\ urchinEmbeddingCache' = found.cache
         /\ tool' = [op |-> ops + 1, name |-> "SEARCH_MEMORY", key |-> NoKey,
                     success |-> TRUE,
                     embedded |-> Embedded(urchinEmbeddingCache, combined, e)]
  /\ UNCHANGED <<urchinMemory, urchinProfile, urchinSkills, urchinCondensed,
                 composed, pass, loopVars>>

\* the user input of the composes of this model
Question == <<Blob("question", 40)>>

\* loadMemoryLayers (lines 364-483), the id-th call of it in the behaviour
ComposeEffect(history, userInput, e, id) ==
  LET memory == ManualEvicted(urchinMemory)
         candidates == AllMemEntries(memory)
         filtered == Filtered(Len(candidates))
         found == IF filtered
                  THEN relevanceFilterMemories(candidates, urchinEmbeddingCache,
                                               e, FILTER_MAX_RESULTS, now)
                  ELSE [relevant |-> <<>>, cache |-> urchinEmbeddingCache]
  IN     /\ urchinProfile' = IF ProfileWritten(urchinProfile)
                             THEN ProfileEntries(urchinProfile)
                             ELSE urchinProfile
         /\ urchinMemory' = memory
         /\ urchinEmbeddingCache' = found.cache
         /\ urchinSkills' = SkillsUsed(urchinSkills, now)
         /\ composed' =
              [ op |-> id,
                messages |->
                  ExtendLast(loadMemoryLayers(urchinCondensed, history, userInput),
                             ProfileBlock(urchinProfile)
                             \o MemoryBlock(memory, found.relevant)
                             \o SkillBlock(urchinSkills)),
                activeSkillNames |-> ActiveSkillNames(urchinSkills),
                candidates |-> candidates,
                filterCalls |-> IF filtered THEN 1 ELSE 0,
                relevant |-> found.relevant,
                embedded |-> IF filtered
                             THEN Embedded(urchinEmbeddingCache, candidates, e)
                             ELSE {},
                wrote |-> {"urchinProfile" : x \in {1} \cap
                              (IF ProfileWritten(urchinProfile) THEN {1} ELSE {})}
                          \cup {"urchinMemory" : x \in {1} \cap
                              (IF memory # urchinMemory THEN {1} ELSE {})}
                          \cup {"urchinSkills" : x \in {1} \cap
                              (IF SkillsWritten(urchinSkills) THEN {1} ELSE {})} ]

\* a compose with no history passed
Compose(e) ==
  /\ Tick
  /\ ComposeEffect(<<>>, Question, e, ops + 1)
  /\ UNCHANGED <<urchinCondensed, tool, pass, loopVars>>

\* the jobs of a pass whose condition holds (lines 495, 518, 540, 556-560)
JobsDue(skills, count, msgs, history, active) ==
  (IF SessionDue(count, msgs) THEN {"session"} ELSE {})
  \cup (IF ProfileDue(count, msgs) THEN {"profile"} ELSE {})
  \cup (IF CondenseDue(history) THEN {"condense"} ELSE {})
  \cup (IF EvalDue(count, msgs, active)
           /\ \E i \in DOMAIN skills : skills[i].name \in Range(active)
        THEN {"eval"} ELSE {})

\* the pass stops with an exception nothing inside it catches: the
\* storage.set of line 515 is in no try block, and the storage.set of line
\* 551 is in the catch block of the condensation
Rejects(due, down) ==
  IF "urchinMemory" \in down THEN "memory"
  ELSE IF "condense" \in due /\ "urchinCondensed" \in down THEN "condense"
  ELSE "no"

\* the jobs the pass enters
JobsRan(due, down) ==
  CASE Rejects(due, down) = "memory" -> due \cap {"session"}
    [] Rejects(due, down) = "condense" -> due \ {"eval"}
    [] OTHER -> due

\* the jobs in which a model call or a storage call threw
JobsFailed(ran, in) ==
  {j \in ran :
     \/ j = "session" /\ in.summary.kind = "fail"
     \/ j = "profile" /\ (in.profile.kind = "fail"
                           \/ ("urchinProfile" \in in.down
                               /\ Len(NewProfile(in.profile)) > 0))
     \/ j = "condense" /\ (in.condense.kind = "fail"
                            \/ "urchinCondensed" \in in.down)
     \/ j = "eval" /\ (in.eval.kind = "fail"
                        \/ ("urchinSkills" \in in.down /\ in.eval.kind = "scores"))}

\* runPostResponseJobs (lines 489-590) on the stack and the history of a
\* request, with the names of the skills its compose injected
PassEffect(msgs, history, active, in, id) ==
  LET count == ConvCount(urchinMemory)
      due == JobsDue(urchinSkills, count, msgs, history, active)
      ran == JobsRan(due, in.down)
  IN  /\ urchinMemory' =
           IF "urchinMemory" \in in.down THEN urchinMemory
           ELSE MemoryAfterPass(urchinMemory, msgs, in.summary, now)
      /\ urchinProfile' =
           IF "profile" \in ran /\ "urchinProfile" \notin in.down
           THEN ProfileAfterPass(urchinProfile, count, msgs, in.profile, now)
           ELSE urchinProfile
      /\ urchinCondensed' =
           IF "condense" \in ran /\ "urchinCondensed" \notin in.down
           THEN CondensedAfterPass(urchinCondensed, history, in.condense)
           ELSE urchinCondensed
      /\ urchinSkills' =
           IF "eval" \in ran /\ "urchinSkills" \notin in.down
           THEN SkillsAfterPass(urchinSkills, count, msgs, active, in.eval, now)
           ELSE urchinSkills
      /\ pass' = [ op |-> id,
                   count |-> count,
                   active |-> active,
                   summarized |-> "session" \in ran /\ in.summary.kind = "text"
                                  /\ "urchinMemory" \notin in.down,
                   condensing |-> IF "condense" \notin ran
                                     \/ "urchinCondensed" \in in.down THEN "none"
                                  ELSE IF in.condense.kind = "text" THEN "model"
                                  ELSE "fallback",
                   uncut |-> IF "condense" \in ran
                             THEN Uncut(urchinCondensed, history, in.condense)
                             ELSE <<>>,
                   profiled |-> ProfileDue(count, msgs),
                   evaluated |-> "eval" \in ran /\ in.eval.kind = "scores"
                                 /\ "urchinSkills" \notin in.down,
                   scores |-> IF in.eval.kind = "scores" THEN in.eval.scores
                              ELSE <<>>,
                   due |-> due,
                   ran |-> ran,
                   failed |-> JobsFailed(ran, in),
                   rejected |-> Rejects(due, in.down) # "no",
                   profileOut |-> in.profile,
                   down |-> in.down ]

\* the pass scheduled by the request that made the last compose
MaintenancePass(in) ==
  /\ composed.op > pass.op
  /\ Tick
  /\ PassEffect(in.msgs, in.history, composed.activeSkillNames, in, ops + 1)
  /\ UNCHANGED <<urchinEmbeddingCache, tool, composed, loopVars>>

StoreNext ==
  \/ \E k \in RememberKeys : Remember(k, Fact(k.n))
  \/ \E e \in EmbeddingBehaviours : SearchMemory(e)
  \/ \E e \in EmbeddingBehaviours : Compose(e)
  \/ \E in \in PassInputs : MaintenancePass(in)

StoreSpec == StoreInit /\ [][StoreNext]_vars

\* ------------------------------------------------------------------------
\* The score update of the skill evaluation, on its own: one stored skill,
\* evaluated again and again with the values the model may give
\* ------------------------------------------------------------------------
\* the evaluations of the model, in tenths: the whole numbers and the halves
\* from -1 to 101
EvalTenths == {e10 \in (0 - 10)..1010 : e10 % 5 = 0}

OneSkill(score) ==
  << [name |-> "skill", instruction |-> "cite sources", score |-> score,
      usageCount |-> 1, learnedAt |-> StartClock] >>

ScoreInit ==
  /\ \E score \in 0..100 : urchinSkills = OneSkill(score)
  /\ urchinMemory = <<>>
  /\ urchinProfile = <<>>
  /\ urchinEmbeddingCache = <<>>
  /\ urchinCondensed = <<>>
  /\ tool = NoTool
  /\ composed = NoCompose
  /\ pass = NoPass
  /\ now = StartClock
  /\ ops = 0
  /\ LoopIdle
  /\ Sequential

\* one pass of the loop of lines 569-577 for the property "skill": val of
\* the scores object
EvaluateSkill(val) ==
  /\ Field(urchinSkills[1], "evalCount", 0) < MaxEvals
  /\ urchinSkills' = Evaluated(urchinSkills, "skill", val, now)
  /\ pass' = [op |-> 1, old |-> Score(urchinSkills[1]), val |-> val]
  /\ UNCHANGED <<urchinMemory, urchinProfile, urchinEmbeddingCache,
                 urchinCondensed, tool, composed, now, ops, loopVars>>

ScoreNext ==
  \E val \in {Number(e10) : e10 \in EvalTenths} \cup {NotANumber} :
    EvaluateSkill(val)

ScoreSpec == ScoreInit /\ [][ScoreNext]_vars

\* ------------------------------------------------------------------------
\* Properties of the store
\* ------------------------------------------------------------------------
\* the step is a compose, a maintenance pass, a call of a memory tool
ComposeStep == composed'.op # composed.op
PassStep == pass'.op # pass.op
ToolStep == tool'.op # tool.op

\* the current-turn message of the last compose
CurrentContent == LastMessage(composed.messages).content

\* the entries of the store under manual keys, under session keys
ManualEntries(memory) == {p \in Range(memory) : IsManualKey(p.k)}
SessionEntries(memory) == {p \in Range(memory) : IsSessionKey(p.k)}

\* C11: the persisted store never holds more than 100 manual entries (keys
\* that start neither with 'session_' nor with '_'), whatever REMEMBER calls
\* and composes have run; and when a compose removes manual entries, every
\* entry it removes was assigned before every manual entry it keeps.
C11_ManualCap ==
  /\ [](Cardinality(ManualEntries(urchinMemory)) <= 100)
  /\ [][ComposeStep =>
          \A r \in ManualEntries(urchinMemory) \ ManualEntries(urchinMemory') :
            \A k \in ManualEntries(urchinMemory') : r.at <= k.at]_vars

\* C12: after a maintenance pass that stored a new session summary, and
\* after every compose, the store holds at most 20 entries under session
\* keys; the entries a pass removes have names that sort before the names
\* of all the entries it keeps.
C12_SessionCap ==
  [][(ComposeStep \/ (PassStep /\ pass'.summarized)) =>
       /\ Cardinality(SessionEntries(urchinMemory')) <= 20
       /\ \A r \in SessionEntries(urchinMemory) \ SessionEntries(urchinMemory') :
            \A k \in SessionEntries(urchinMemory') : NameBefore(r.k, k.k)]_vars

\* the keys of the k properties of an object that were assigned last
LastAssigned(obj, k) ==
  {p.k : p \in {q \in Range(obj) :
                  Cardinality({x \in Range(obj) : x.at > q.at}) < k}}

\* the keys of an object whose name is in a text
KeysShown(obj, content) ==
  {k \in Range(ObjKeys(obj)) : KeyText(k) \in Range(content)}

\* C13: a compose injects the profile keys that were assigned last, at most
\* 50 of them; if the stored profile holds more than 50 keys the profile
\* persisted after the compose is that set of 50; if it holds 50 or fewer the
\* compose does not write the profile.
C13_ProfileCap ==
  [][ComposeStep =>
       /\ KeysShown(urchinProfile, LastMessage(composed'.messages).content)
            = LastAssigned(urchinProfile, 50)
       /\ Len(urchinProfile) > 50 =>
            Range(ObjKeys(urchinProfile')) = LastAssigned(urchinProfile, 50)
       /\ Len(urchinProfile) <= 50 =>
            /\ "urchinProfile" \notin composed'.wrote
            /\ urchinProfile' = urchinProfile]_vars

\* the vectors the cache held before the step together with those the step
\* computed
VectorsSeen ==
  {[k |-> p.k, at |-> p.at] : p \in Range(urchinEmbeddingCache)}
  \cup {[k |-> k, at |-> now] : k \in tool'.embedded \cup composed'.embedded}

\* the step is a relevance-filter or semantic-recall call that computed a
\* vector
EmbeddingStep ==
  \/ ToolStep /\ tool'.embedded # {}
  \/ ComposeStep /\ composed'.embedded # {}

\* C14: after a relevance-filter or semantic-recall call that adds a vector,
\* the persisted cache holds at most 300 vectors, and every vector that is
\* gone was inserted no later than every vector that is kept; the cap holds
\* in every state.
C14_EmbeddingCap ==
  /\ [](Len(urchinEmbeddingCache) <= 300)
  /\ [][EmbeddingStep =>
          \A r \in VectorsSeen :
            r.k \notin Range(ObjKeys(urchinEmbeddingCache')) =>
              \A k \in Range(urchinEmbeddingCache') : r.at <= k.at]_vars

\* C15: after a maintenance pass the persisted narrative has at most 4000
\* characters, whether the model call of the condensation succeeded or the
\* fallback ran; and when the text to store was longer than 4000 characters,
\* what is stored is its last 4000 characters.
C15_CondensedCap ==
  /\ [](Size(urchinCondensed) <= 4000)
  /\ [][(PassStep /\ pass'.condensing # "none" /\ Size(pass'.uncut) > 4000) =>
          urchinCondensed' = TailSlice(pass'.uncut, 4000)]_vars

\* the candidate entries of a store: the 20 session entries whose names sort
\* last, and the manual entries
Candidates(memory) ==
  {p \in SessionEntries(memory) :
     Cardinality({q \in SessionEntries(memory) : NameBefore(p.k, q.k)}) < 20}
  \cup ManualEntries(memory)

\* every token of a value is in a text
Shown(v, content) == \A i \in DOMAIN v : v[i] \in Range(content)

\* C16: with at most 6 candidate entries a compose injects the value of each
\* of them into the current-turn message and does not call the relevance
\* filter; with 7 or more it calls the filter, once, on the candidates.
C16_FilterThreshold ==
  [][ComposeStep =>
       LET cands == Candidates(urchinMemory')
           content == LastMessage(composed'.messages).content
       IN  /\ Cardinality(cands) <= 6 =>
                /\ composed'.filterCalls = 0
                /\ \A p \in cands : Shown(p.v, content)
           /\ Cardinality(cands) >= 7 =>
                /\ composed'.filterCalls = 1
                /\ {[k |-> p.k, v |-> p.v] : p \in Range(composed'.candidates)}
                     = {[k |-> p.k, v |-> p.v] : p \in cands}]_vars

\* a compose of a store of 6 candidates has run without the filter
C16_Witness ==
  /\ composed.op > 0
  /\ composed.filterCalls = 0
  /\ Cardinality(Candidates(urchinMemory)) = 6
  /\ \A p \in Candidates(urchinMemory) : Shown(p.v, CurrentContent)

\* the session summaries of a store: the entries of the keys session_<hour>
Summaries(memory) == {p \in SessionEntries(memory) : p.k.digits}

\* C17: if the store holds a session summary at compose time, the
\* current-turn message contains the text of the summary with the greatest
\* timestamp, whatever the relevance filter returned.
C17_LatestSummary ==
  [][ComposeStep =>
       \A p \in Summaries(urchinMemory) :
         (\A q \in Summaries(urchinMemory) : q.k.n <= p.k.n) =>
           Shown(p.v, LastMessage(composed'.messages).content)]_vars

\* C18: a compose injects the stored skills whose score is above 15 (50 if
\* the skill has no score) and no other, returns their names as
\* activeSkillNames, adds 1 to the usageCount of each of them in the
\* persisted list, and leaves the other skills as they were.
C18_SkillInjection ==
  [][ComposeStep =>
       LET content == LastMessage(composed'.messages).content
           names == composed'.activeSkillNames
           Above(s) == IF "score" \in DOMAIN s THEN s.score > 15 ELSE TRUE
           Uses(s) == IF "usageCount" \in DOMAIN s THEN s.usageCount ELSE 0
       IN  /\ Len(urchinSkills') = Len(urchinSkills)
           /\ Len(names) = Cardinality({i \in DOMAIN urchinSkills :
                                          Above(urchinSkills[i])})
           /\ \A i \in DOMAIN urchinSkills :
                IF Above(urchinSkills[i])
                THEN /\ urchinSkills[i].name \in Range(names)
                     /\ Lit(urchinSkills[i].name) \in Range(content)
                     /\ urchinSkills'[i].name = urchinSkills[i].name
                     /\ urchinSkills'[i].usageCount = Uses(urchinSkills[i]) + 1
                     /\ "urchinSkills" \in composed'.wrote
                ELSE /\ urchinSkills[i].name \notin Range(names)
                     /\ Lit(urchinSkills[i].name) \notin Range(content)
                     /\ urchinSkills'[i] = urchinSkills[i]]_vars

\* a compose has injected the skill with no score and the skill of score 16,
\* and left out the skill of score 15
C18_Witness ==
  /\ composed.op = 1
  /\ pass.op = 0
  /\ composed.activeSkillNames = <<"fresh", "tidy", "worn">>
  /\ Lit("stale") \notin Range(CurrentContent)
  /\ urchinSkills[1].usageCount = 1
  /\ urchinSkills[2].usageCount = 6
  /\ urchinSkills[4].usageCount = 0

\* C19: an evaluation e of a skill of integer score old in 0..100 sets the
\* score to old * 0.6 + clamp(e, 0, 100) * 0.4 rounded to the nearest integer
\* (halves up); old = 50 and e = 90 give 66; the new score is in 0..100 and
\* lies between old and clamp(e, 0, 100), after any number of evaluations.
\* The evaluation is in tenths, so the sums below are in hundredths.
C19_ScoreUpdate ==
  (pass.op > 0 /\ pass.val.num) =>
    LET old == pass.old
        c10 == IF pass.val.e10 < 0 THEN 0
               ELSE IF pass.val.e10 > 1000 THEN 1000 ELSE pass.val.e10
        new == urchinSkills[1].score
    IN  /\ 100 * new <= 60 * old + 4 * c10 + 50
        /\ 60 * old + 4 * c10 + 50 < 100 * new + 100
        /\ new \in 0..100
        /\ \/ 10 * old <= 10 * new /\ 10 * new <= c10
           \/ c10 <= 10 * new /\ 10 * new <= 10 * old
        /\ (old = 50 /\ pass.val.e10 = 900) => new = 66

\* a skill of score 50 has been evaluated 90 and has the score 66, and it
\* was its second evaluation
C19_Witness ==
  /\ pass.op > 0
  /\ pass.val = Number(900)
  /\ pass.old = 50
  /\ urchinSkills[1].score = 66
  /\ urchinSkills[1].evalCount = 2

\* C20: after a skill evaluation whose model output parsed into scores, the
\* persisted list is the list of the stored skills with their updated scores
\* and evalCounts, without those that meet one of: score <= 10 and
\* evalCount >= 2; usageCount > 30 and score <= 20; learned more than 30
\* days (720 hours) ago and usageCount = 0.
C20_Prune ==
  [][(PassStep /\ pass'.evaluated) =>
       LET updated == EvaluatedAll(urchinSkills, pass'.scores, now)
           Num(s, f, d) == IF f \in DOMAIN s THEN s[f] ELSE d
           Goes(s) ==
             \/ Num(s, "score", 50) <= 10 /\ Num(s, "evalCount", 0) >= 2
             \/ Num(s, "usageCount", 0) > 30 /\ Num(s, "score", 50) <= 20
             \/ now - Num(s, "learnedAt", 0) > 720 /\ Num(s, "usageCount", 0) = 0
       IN  urchinSkills' = SelectSeq(updated, LAMBDA s : ~Goes(s))]_vars

\* an evaluation has pruned a skill on each of the three conditions and kept
\* the fourth with its new score
C20_Witness ==
  /\ pass.op > 0
  /\ pass.evaluated
  /\ Len(pass.scores) = 5
  /\ Len(urchinSkills) = 1
  /\ urchinSkills[1].name = "fresh"
  /\ urchinSkills[1].score = 66
  /\ urchinSkills[1].evalCount = 1

\* ========================================================================
\* trimMessagesToBudget on its own: every stack of up to MaxStack entries,
\* every budget, the function applied to the stack again and again
\* ========================================================================
\* the store with nothing in it
StoreEmpty ==
  /\ urchinMemory = <<>>
  /\ urchinProfile = <<>>
  /\ urchinSkills = <<>>
  /\ urchinEmbeddingCache = <<>>
  /\ urchinCondensed = <<>>
  /\ tool = NoTool
  /\ pass = NoPass
  /\ now = StartClock

\* the lengths of the entries: shorter than the 200 characters trimming
\* keeps, longer, and longer than the default budget
EntrySizes == {150, 300, MAX_CONTEXT_CHARS + 10000}

\* the budgets: nothing, less than any entry, between the sizes of the
\* stacks, the default
Budgets == {0, 100, 455, 700, MAX_CONTEXT_CHARS, 2 * MAX_CONTEXT_CHARS + 20000}

\* the stack whose i-th entry has sizes[i] characters
StackOf(sizes) ==
  [i \in DOMAIN sizes |->
     [role |-> IF i % 2 = 1 THEN "user" ELSE "assistant",
      content |-> <<Blob("entry", sizes[i])>>]]

TrimStacks ==
  UNION {{StackOf(sizes) : sizes \in [1..n -> EntrySizes]} : n \in 0..MaxStack}

\* composed holds the stack and the budget the function was first given
TrimInit ==
  /\ \E stack \in TrimStacks, budget \in Budgets :
       /\ messages = stack
       /\ composed = [op |-> 0, messages |-> stack, budget |-> budget]
  /\ ops = 0
  /\ StoreEmpty
  /\ urchinChatHistory = <<>>
  /\ appended = <<>>
  /\ pc = "idle"
  /\ opts = [userInput |-> <<>>, history |-> <<>>, maxSteps |-> 0,
             tools |-> {}, runPostJobs |-> TRUE]
  /\ step = 0
  /\ raw = <<>>
  /\ finalAnswer = <<>>
  /\ toolJobs = <<>>
  /\ promises = <<>>
  /\ outcome = NoOutcome
  /\ scheduled = 0
  /\ llmInFlight = 0
  /\ llmCalls = 0
  /\ handlerCalls = <<>>
  /\ settleOrder = <<>>
  /\ behaved = <<>>
  /\ failed = FALSE
  /\ requests = 0
  /\ timers = <<>>
  /\ Sequential

\* trimMessagesToBudget(messages, budget): the entries are changed in place
TrimCall ==
  /\ ops < MaxOps
  /\ ops' = ops + 1
  /\ messages' = trimMessagesToBudget(messages, composed.budget)
  /\ UNCHANGED <<urchinChatHistory, urchinCondensed, pc, opts, step, raw,
                 finalAnswer, toolJobs, promises, outcome, scheduled,
                 llmInFlight, llmCalls, handlerCalls, settleOrder, behaved,
                 failed, appended, requests, urchinMemory, urchinProfile,
                 urchinSkills, urchinEmbeddingCache, tool, composed, pass, now,
                 timers, raceVars>>

TrimSpec == TrimInit /\ [][TrimCall]_vars

\* C25: whatever the stack and the budget, after trimming the stack has as
\* many entries as before, and its last two entries have the content they
\* had.
C25_TrimKeepsEntries ==
  ops > 0 =>
    /\ Len(messages) = Len(composed.messages)
    /\ \A i \in DOMAIN messages :
         /\ messages[i].role = composed.messages[i].role
         /\ i >= Len(messages) - 1 => messages[i] = composed.messages[i]

\* a stack of three entries has been trimmed to a budget smaller than its
\* last entry alone: the first entry was cut, the last two are as they were
C25_Witness ==
  /\ ops = 1
  /\ Len(messages) = 3
  /\ composed.budget < Size(messages[3].content)
  /\ Size(composed.messages[1].content) > MAX_CONTEXT_CHARS
  /\ Size(messages[1].content) = TRIM_KEEP + 10
  /\ messages[2] = composed.messages[2]
  /\ messages[3] = composed.messages[3]

\* ========================================================================
\* summarizeToolResult on its own: one job and its result, of every length
\* around the two thresholds, rendered as lines 653-662 render it
\* ========================================================================
\* the lengths of JSON.stringify(result), and of the contentPreview field
ResultLens ==
  {16, 9000} \cup {SUMMARY_PASS + d : d \in (0 - MaxDelta)..MaxDelta}
PreviewLens ==
  {0, 100, 8000} \cup {SUMMARY_KEEP + d : d \in (0 - MaxDelta)..MaxDelta}

\* the results a handler may return: an object, with or without an error
\* field, with or without a preview, the preview being a part of it
ToolOutputs ==
  { r \in { Result("object", error, len, preview) :
               error \in {NoError, "failed"}, len \in ResultLens,
               preview \in PreviewLens } :
      r.preview = 0 \/ r.preview + 40 <= r.len }

SummaryInit ==
  /\ \E name \in {"FETCH_URL", "WEB_SEARCH"}, result \in ToolOutputs :
       /\ toolJobs = << [name |-> name, param |-> "x"] >>
       /\ promises = << [state |-> "fulfilled", value |-> result] >>
  /\ messages = <<>>
  /\ composed = NoCompose
  /\ ops = 0
  /\ StoreEmpty
  /\ urchinChatHistory = <<>>
  /\ appended = <<>>
  /\ pc = "dispatch"
  /\ opts = [userInput |-> <<>>, history |-> <<>>, maxSteps |-> 1,
             tools |-> {}, runPostJobs |-> TRUE]
  /\ step = 0
  /\ raw = <<>>
  /\ finalAnswer = <<>>
  /\ outcome = NoOutcome
  /\ scheduled = 0
  /\ llmInFlight = 0
  /\ llmCalls = 1
  /\ handlerCalls = <<>>
  /\ settleOrder = <<1>>
  /\ behaved = <<"ok">>
  /\ failed = FALSE
  /\ requests = 1
  /\ timers = <<>>
  /\ Sequential

\* the for loop of lines 653-660 and the push of line 662
RenderResults ==
  /\ ops = 0
  /\ ops' = 1
  /\ messages' = Append(messages, ResultsEntry(toolJobs, ToolResults))
  /\ UNCHANGED <<urchinChatHistory, urchinCondensed, pc, opts, step, raw,
                 finalAnswer, toolJobs, promises, outcome, scheduled,
                 llmInFlight, llmCalls, handlerCalls, settleOrder, behaved,
                 failed, appended, requests, urchinMemory, urchinProfile,
                 urchinSkills, urchinEmbeddingCache, tool, composed, pass, now,
                 timers, raceVars>>

SummarySpec == SummaryInit /\ [][RenderResults]_vars

\* C28: a result whose serialization has at most 3000 characters is rendered
\* as it is; a larger one as its first 2500 characters and the 12-character
\* marker; but a larger FETCH_URL result with a content preview is rendered
\* with every other field as it was and the preview cut to at most 2500
\* characters and followed by the marker.
C28_SummarizeResult ==
  ops > 0 =>
    LET res == promises[1].value
        out == LinesOf(messages[1].content)[1].json
        fetch == toolJobs[1].name = "FETCH_URL" /\ res.preview > 0
        kept == IF res.preview < 2500 THEN res.preview ELSE 2500
    IN  /\ res.len <= 3000 =>
              out.len = res.len /\ ~out.cut
              /\ out.val = res.val /\ out.error = res.error
        /\ (res.len > 3000 /\ ~fetch) => out.len = 2500 + 12 /\ out.cut
        /\ (res.len > 3000 /\ fetch) =>
              out.len = (res.len - res.preview) + kept + 12 /\ out.cut
              /\ out.val = res.val /\ out.error = res.error

\* a FETCH_URL result of 9000 characters, 8000 of them its preview, has been
\* rendered in 1000 + 2500 + 12 characters
C28_Witness ==
  /\ ops = 1
  /\ toolJobs[1].name = "FETCH_URL"
  /\ promises[1].value.len = 9000
  /\ promises[1].value.preview = 8000
  /\ LinesOf(messages[1].content)[1].json.len = 3512

\* ========================================================================
\* Properties of the maintenance pass
\* ========================================================================
\* C22: a pass that brings the conversation counter to a multiple of 3, of 5
\* and of 10 runs the session-summary job, the profile-extraction job and
\* the skill-evaluation job.
C22_AllJobsAtCommonMultiple ==
  [][(PassStep /\ pass'.count % 3 = 0 /\ pass'.count % 5 = 0
        /\ pass'.count % 10 = 0)
     => {"session", "profile", "eval"} \subseteq pass'.ran]_vars

\* the pairs (key, value) of an object
Pairs(obj) == {<<obj[i].k, obj[i].v>> : i \in DOMAIN obj}

\* C23: when one job of a pass fails, every other job whose condition holds
\* in the pass runs, and the region each of the other jobs writes is what
\* that job alone makes of it: the summaries in urchinMemory, urchinProfile,
\* urchinCondensed, urchinSkills.
C23_JobsIsolated ==
  [][(PassStep /\ pass'.failed # {}) =>
       \A j \in pass'.due \ pass'.failed :
         /\ j \in pass'.ran
         /\ (j = "session") => ObjHas(urchinMemory', SessionKey(now))
         /\ (j = "profile") =>
              LET new == NewProfile(pass'.profileOut)
              IN  Pairs(urchinProfile') =
                    Pairs(new) \cup {q \in Pairs(urchinProfile) :
                                      q[1] \notin {new[i].k : i \in DOMAIN new}}
         /\ (j = "condense") =>
              urchinCondensed' = IF pass'.condensing = "model"
                                 THEN Slice(pass'.uncut, 4000)
                                 ELSE TailSlice(pass'.uncut, 4000)
         /\ (j = "eval") =>
              urchinSkills' = IF pass'.evaluated
                              THEN pruned(EvaluatedAll(urchinSkills,
                                                       pass'.scores, now), now)
                              ELSE urchinSkills
    ]_vars

\* C30: a profile extraction whose output parses to an object with keys
\* leaves as profile the old one with each key of the object set to its
\* value, no key removed; an extraction whose model call failed, whose
\* output holds no JSON or an empty object, leaves the profile as it was.
C30_ProfileMerge ==
  [][(PassStep /\ "profile" \in pass'.ran /\ "urchinProfile" \notin pass'.down) =>
       LET new == NewProfile(pass'.profileOut)
           newKeys == {new[i].k : i \in DOMAIN new}
       IN  IF pass'.profileOut.kind = "json" /\ new # <<>>
           THEN /\ Pairs(urchinProfile') =
                     Pairs(new) \cup {q \in Pairs(urchinProfile) : q[1] \notin newKeys}
                /\ \A i \in DOMAIN urchinProfile :
                     ObjHas(urchinProfile', urchinProfile[i].k)
           ELSE urchinProfile' = urchinProfile
    ]_vars

\* an extraction has set the stored key k2 to a new value and added k60, and
\* the key k1 is as it was
C30_Witness ==
  /\ "profile" \in pass.ran
  /\ pass.profileOut.kind = "json"
  /\ <<ManualKey(2), Fact(99)>> \in Pairs(urchinProfile)
  /\ <<ManualKey(60), Fact(60)>> \in Pairs(urchinProfile)
  /\ <<ManualKey(1), Fact(1)>> \in Pairs(urchinProfile)
  /\ <<ManualKey(2), Fact(2)>> \notin Pairs(urchinProfile)

\* ------------------------------------------------------------------------
\* A client of urchinLoop: requests on a store with learned skills and
\* memories, each followed by the maintenance pass it scheduled
\* ------------------------------------------------------------------------

\* the store is the small one, with and without a condensed narrative
TurnStores ==
  { SmallStore(29), [SmallStore(29) EXCEPT !.condensed = <<>>] }

\* the size of the long turn of PastedHistory
PASTE_CHARS == 78100

\* a history whose first turn is a long paste: the stack composed from it
\* stays just under MAX_CONTEXT_CHARS
PastedHistory ==
  << [role |-> "user", text |-> <<Blob("paste", PASTE_CHARS)>>],
     [role |-> "assistant", text |-> <<Lit("Noted.")>>] >>

\* the stored skills: those of StartSkills and one more that is not viable
\* and meets no condition of the pruning
TurnSkills ==
  StartSkills
  \o << [name |-> "dull", instruction |-> "use bullet lists", score |-> 12,
         usageCount |-> 3, evalCount |-> 1, learnedAt |-> 1990] >>

\* the outputs of the model in a pass: those of PassInputs, and an evaluation
\* that scores a skill that was not injected
TurnPassInputs ==
  PassInputs
  \cup { [ msgs |-> 4, history |-> HistoryOf(45),
           summary |-> Failed, profile |-> Failed, condense |-> Failed,
           eval |-> Scores(<< [name |-> "dull", val |-> Number(900)],
                              [name |-> "tidy", val |-> Number(500)] >>),
           down |-> {} ] }

TurnCallers ==
  { [history |-> <<>>, maxSteps |-> 2, runPostJobs |-> TRUE],
    [history |-> HistoryOf(35), maxSteps |-> 2, runPostJobs |-> TRUE],
    [history |-> PastedHistory, maxSteps |-> 2, runPostJobs |-> FALSE],
    [history |-> HistoryOf(45), maxSteps |-> 2, runPostJobs |-> TRUE] }

TurnReplies ==
  { <<Lit("Done.")>>,
    <<Think("plan", 4)>>,
    <<Think("plan", 4), Lit("Done."), Think("check", 5)>>,
    <<Think("plan", 4), ToolTag("WEB_SEARCH", "q")>>,
    <<ToolTag("CUSTOM", "x")>> }

TurnInit ==
  /\ \E st \in TurnStores :
       /\ urchinMemory = st.memory
       /\ urchinProfile = st.profile
       /\ urchinEmbeddingCache = st.cache
       /\ urchinCondensed = st.condensed
  /\ urchinSkills = TurnSkills
  /\ tool = NoTool
  /\ composed = NoCompose
  /\ pass = NoPass
  /\ now = StartClock
  /\ ops = 0
  /\ LoopIdle
  /\ Sequential

\* urchinLoop up to its loop (lines 596-630): loadMemoryLayers, then the
\* trim of the stack it returned
StartTurn(history, maxSteps, runPostJobs, e) ==
  /\ requests < MaxTurns
  /\ ComposeEffect(history, InputOf(requests + 1), e, requests + 1)
  /\ RequestHead(history, maxSteps, runPostJobs, composed'.messages)
  /\ now' = now + 1
  /\ UNCHANGED <<urchinChatHistory, urchinCondensed, scheduled, appended,
                 timers, tool, pass, ops, raceVars>>

\* what setTimeout is handed at line 673: the pass with the stack, the new
\* history and the active skill names of the request
Closure ==
  [ request |-> requests,
    msgs |-> Len(messages),
    history |-> NewHistory(opts.history, opts.userInput, finalAnswer),
    active |-> composed.activeSkillNames ]

\* the end of a request, the pass it schedules being kept to run later
PersistTurn ==
  /\ PersistCore
  /\ timers' = IF SchedulesPostJobs(opts.runPostJobs, finalAnswer)
               THEN Append(timers, Closure) ELSE timers

\* a rejection of the pass with no catch on the promise
AfterPassUncaught(o, rejected) ==
  IF rejected THEN [kind |-> "error", answer |-> <<Lit("Error")>>] ELSE o

\* what the caller holds once the pass has ended: the promise of the pass
\* has .catch(() => {}) on it (line 674)
AfterPass(o, rejected) == o

\* the callback of the oldest timer runs: the maintenance pass of its request
RunPass(in) ==
  /\ timers # <<>>
  /\ PassEffect(Head(timers).msgs, Head(timers).history, Head(timers).active,
                in, pass.op + 1)
  /\ timers' = Tail(timers)
  /\ now' = now + 1
  /\ outcome' = AfterPass(outcome, pass'.rejected)
  /\ UNCHANGED <<urchinChatHistory, urchinEmbeddingCache, tool, composed, ops,
                 pc, opts, messages, step, raw, finalAnswer, jobState,
                 scheduled, llmInFlight, llmCalls, failed, appended, requests,
                 raceVars>>

TurnNext ==
  \/ \E c \in TurnCallers, e \in EmbeddingBehaviours :
       StartTurn(c.history, c.maxSteps, c.runPostJobs, e)
  \/ \E r \in TurnReplies : ModelReply(r)
  \/ ModelFail
  \/ \E i \in DOMAIN promises, b \in HandlerBehaviours \cup {"proto"} :
       ToolSettle(i, b)
  \/ FanIn
  \/ Abort
  \/ PersistTurn
  \/ \E in \in TurnPassInputs : RunPass(in)

TurnSpec == TurnInit /\ [][TurnNext]_vars

\* ------------------------------------------------------------------------
\* Properties of a request and its maintenance pass
\* ------------------------------------------------------------------------

\* the text holds the content of a think block
HasThink(content) == \E i \in DOMAIN content : content[i].t = "think"

\* C27: whatever number of think blocks a model reply holds, none of their
\* content is in the answer of the loop, in the result returned to the user
\* or in an entry of the message stack.
C27_ThinkStripped ==
  /\ ~HasThink(finalAnswer)
  /\ ~HasThink(outcome.answer)
  /\ \A i \in DOMAIN messages : ~HasThink(messages[i].content)

\* what trimMessagesToBudget leaves: a stack within the budget, or one whose
\* entries but the last two have all been cut
BudgetTrimmed(msgs) ==
  \/ TotalSize(msgs) <= MAX_CONTEXT_CHARS
  \/ \A i \in 1..(Len(msgs) - 2) :
       /\ msgs[i].content # <<>>
       /\ msgs[i].content[Len(msgs[i].content)] = TrimMark

\* C26: at every call of the model, in the first and in every later
\* iteration, the message stack is one that the trim to the global budget
\* has been applied to, the entries appended by earlier iterations included.
C26_TrimmedAtEveryCall ==
  pc = "await_model" => BudgetTrimmed(messages)

\* the persisted conversation counter
Counter == ConvCount(urchinMemory)

\* C21: every request with maintenance enabled that returns a result leads
\* to exactly one increment of the persisted conversation counter by 1: the
\* request hands one pass to the timer when it returns, and each pass that
\* runs adds 1 to the counter.
C21_CounterPerTurn ==
  [][/\ (pc = "persist" /\ pc' = "returned" /\ opts.runPostJobs)
          => Len(timers') = Len(timers) + 1
     /\ PassStep => Counter' = Counter + 1]_vars

\* C29: the stack loadMemoryLayers returns has its layers in a fixed order:
\* with a condensed narrative stored, a user entry carrying it and an
\* assistant acknowledgement first; then the last min(30, n) of the n history
\* turns passed, oldest first, with their roles; then the user message of
\* the current turn as the last entry, which the profile, memory and skill
\* layers extend without adding an entry.
C29_LayerOrder ==
  [][ComposeStep =>
       LET st == composed'.messages
           h == opts'.history
           n == Len(h)
           k == IF n < 30 THEN n ELSE 30
           c == IF Size(urchinCondensed) > 0 THEN 2 ELSE 0
           last == st[Len(st)]
       IN  /\ Len(st) = c + k + 1
           /\ IF c = 2
              THEN /\ st[1].role = "user"
                   /\ SubSeq(st[1].content, 3, 2 + Len(urchinCondensed))
                        = urchinCondensed
                   /\ st[2].role = "assistant"
              ELSE TRUE
           /\ \A i \in 1..k :
                st[c + i] = [role |-> h[n - k + i].role,
                             content |-> h[n - k + i].text]
           /\ last.role = "user"
           /\ SubSeq(last.content, 1, Len(opts'.userInput)) = opts'.userInput
     ]_vars

\* a stack composed from a condensed narrative and 45 history turns: 33
\* entries, the last one longer than the user's input
C29_Witness ==
  /\ composed.op > 0
  /\ Size(urchinCondensed) > 0
  /\ Len(opts.history) = 45
  /\ Len(composed.messages) = 33
  /\ Size(composed.messages[33].content) > Size(opts.userInput)

\* the two turns of a request, as its closure holds them, are in the
\* persisted chat history one after the other
TurnPersisted(history) ==
  \E j \in 1..(Len(appended) - 1) :
    /\ appended[j] = history[Len(history) - 1]
    /\ appended[j + 1] = history[Len(history)]

\* C24: maintenance is fire-and-forget. The pass of a request starts only
\* after the request has its final answer, has persisted its chat history and
\* has returned; the request returns its result with the pass still waiting
\* to run; and a pass, whatever fails inside it, leaves what the caller got
\* as it is and raises no error to it.
C24_FireAndForget ==
  [][/\ PassStep =>
          /\ Head(timers).request <= requests
          /\ Head(timers).request = requests => pc = "returned"
          /\ TurnPersisted(Head(timers).history)
          /\ Head(timers).history[Len(Head(timers).history)].text
               = AnswerOf(Head(timers).history[Len(Head(timers).history)].text)
          /\ outcome' = outcome
          /\ pc' = pc
     /\ (pc = "persist" /\ Len(timers') > Len(timers)) =>
          /\ pc' = "returned"
          /\ outcome' = [kind |-> "result", answer |-> finalAnswer]
          /\ pass' = pass
          /\ timers'[Len(timers')].request = requests
    ]_vars

\* a pass has rejected (its condensation could not be written) after its
\* request returned "Done."
C24_Witness ==
  /\ pass.op > 0
  /\ pass.rejected
  /\ "condense" \in pass.failed
  /\ pc = "returned"
  /\ outcome = [kind |-> "result", answer |-> <<Lit("Done.")>>]

\* ------------------------------------------------------------------------
\* Sizes under trimMessagesToBudget
\* ------------------------------------------------------------------------

\* C35: whatever the stack and the budget, trimMessagesToBudget leaves no
\* entry longer than it was, entries shorter than the 200 characters kept
\* included, so that the stack is not larger after the trim than before it.
C35_TrimNeverGrows ==
  [][(ops' = ops + 1) =>
       /\ \A i \in DOMAIN messages :
            Size(messages'[i].content) <= Size(messages[i].content)
       /\ TotalSize(messages') <= TotalSize(messages)]_vars

\* ------------------------------------------------------------------------
\* Further properties of the reasoning loop
\* ------------------------------------------------------------------------

\* C36: whatever the handlers of the jobs of an iteration did (returned a
\* value, returned nothing, threw any value), urchinLoop does not throw
\* while the jobs are dispatched, and the iteration ends with one result line
\* per job pushed on the stack and the loop going on.
C36_HandlerOutcomes ==
  [][pc = "dispatch" =>
       /\ pc' \in {"dispatch", "await_model", "persist"}
       /\ outcome' = outcome
       /\ pc' # "dispatch" =>
            /\ Len(messages') = Len(messages) + 1
            /\ Len(LinesOf(LastMessage(messages').content)) = Len(toolJobs)
    ]_vars

\* C37: the answer of a result is 'No response.' only when the loop used up
\* its iterations with no tool-free reply; a request that ends on a reply
\* with no tool tag returns the cleaned text of that reply and, with
\* maintenance enabled, schedules a maintenance pass.
C37_SentinelOnlyOnExhaustion ==
  [][(pc = "persist" /\ pc' = "returned") =>
       /\ outcome'.answer = Sentinel => step >= opts.maxSteps
       /\ step < opts.maxSteps =>
            /\ outcome'.answer = Cleaned(raw)
            /\ opts.runPostJobs => scheduled' = scheduled + 1
    ]_vars

\* ------------------------------------------------------------------------
\* Further properties of a request and its maintenance pass
\* ------------------------------------------------------------------------

\* C38: no history turn falls out of context: each of the n turns passed to
\* a request is among the last 30, which are injected into the stack, or in
\* the older part of the history that the condensation of the request's
\* maintenance pass compresses.
C38_NoTurnLost ==
  [][PassStep =>
       LET h == Head(timers).history
           n == Len(h) - 2
       IN  \A i \in 1..n :
             \/ i > n - 30
             \/ "condense" \in pass'.ran /\ i <= Len(h) - 30
    ]_vars

\* a skill with a field of another, absent fields alike
SameField(s, u, f) ==
  /\ (f \in DOMAIN s) = (f \in DOMAIN u)
  /\ f \in DOMAIN s => s[f] = u[f]

\* C40: a maintenance pass changes score, evalCount and lastEvalAt only of
\* skills that were injected in the turn that scheduled it: a stored skill
\* that was not active has these fields as before, whatever names the scores
\* of the model hold.
C40_OnlyActiveEvaluated ==
  [][PassStep =>
       \A i \in DOMAIN urchinSkills, j \in DOMAIN urchinSkills' :
         (/\ urchinSkills[i].name = urchinSkills'[j].name
          /\ urchinSkills[i].name \notin Range(Head(timers).active))
         => /\ SameField(urchinSkills[i], urchinSkills'[j], "score")
            /\ SameField(urchinSkills[i], urchinSkills'[j], "evalCount")
            /\ SameField(urchinSkills[i], urchinSkills'[j], "lastEvalAt")
    ]_vars

\* ------------------------------------------------------------------------
\* REMEMBER and the embedding cache: entries are overwritten with new
\* values between searches
\* ------------------------------------------------------------------------

\* the keys REMEMBER is given: two the store holds, one it does not
OverwriteKeys == {ManualKey(299), ManualKey(300), ManualKey(301)}

\* the values REMEMBER is given for key k: the one of the stored facts, and
\* another
OverwriteValues(k) == {Fact(k.n), Fact(k.n + 1)}

CacheInit ==
  /\ urchinMemory = SmallStore(2).memory
  /\ urchinProfile = SmallStore(2).profile
  /\ urchinEmbeddingCache = SmallStore(2).cache
  /\ urchinCondensed = SmallStore(2).condensed
  /\ urchinSkills = StartSkills
  /\ tool = NoTool
  /\ composed = NoCompose
  /\ pass = NoPass
  /\ now = StartClock
  /\ ops = 0
  /\ LoopIdle
  /\ Sequential

CacheNext ==
  \/ \E k \in OverwriteKeys : \E v \in OverwriteValues(k) : Remember(k, v)
  \/ \E e \in EmbeddingBehaviours : SearchMemory(e)

CacheSpec == CacheInit /\ [][CacheNext]_vars

\* C39: every vector of the embedding cache whose key is a key of the
\* memory was computed from the value the memory holds under that key now:
\* after REMEMBER has overwritten a value, no search scores the key with the
\* vector of the value it had before.
C39_VectorsCurrent ==
  \A i \in DOMAIN urchinEmbeddingCache :
    ObjHas(urchinMemory, urchinEmbeddingCache[i].k)
    => urchinEmbeddingCache[i].v
         = Vector(ObjGet(urchinMemory, urchinEmbeddingCache[i].k))

\* ------------------------------------------------------------------------
\* Handlers that run concurrently on urchinMemory: the REMEMBER jobs of one
\* iteration and the maintenance pass of an earlier request.  A handler runs
\* from one await to the next in one step; between two steps of a handler
\* the steps of the others may run.
\*
\* The storage is the caller's (options.storage).  The default one
\* (createMemoryStorage, lines 30-43) hands out the object it holds, so that
\* a handler changes the stored object in place; a backend that serializes
\* hands out a copy.  A region the storage does not hold reads as undefined
\* and the handler starts from a new {}.
\* ------------------------------------------------------------------------

\* the object the storage holds under a region, {} for none
Held(st, hp, region) == IF st[region] = 0 THEN <<>> ELSE hp[st[region]]

\* const { region = {} } = await storage.get(region): the heap after the
\* call and the reference the caller has
GetHeap(region) ==
  IF storage[region] = 0 THEN Append(heap, <<>>)
  ELSE IF storage.copies THEN Append(heap, heap[storage[region]])
  ELSE heap

GetRef(region) ==
  IF storage[region] = 0 \/ storage.copies THEN Len(heap) + 1
  ELSE storage[region]

\* the memory the store may hold at the start
StartMemory == <<Prop(CounterKey, Count(2), 1000)>> \o Facts(301, 301)

\* the jobs of the iteration: REMEMBER of n distinct keys, or a REMEMBER of
\* the key _convCount with the value "0"
RememberJob(k, v) == [key |-> k, value |-> v, pc |-> "get", ref |-> 0]

JobLists ==
  { [i \in 1..n |-> RememberJob(ManualKey(300 + i), Fact(400 + i))] :
      n \in 1..MaxJobs }
  \cup { <<RememberJob(CounterKey, Count(0))>> }

\* the values of the variables that are the same in every state of the
\* concurrent handlers
RaceIdle ==
  /\ urchinProfile = <<>>
  /\ urchinSkills = <<>>
  /\ urchinEmbeddingCache = <<>>
  /\ urchinCondensed = <<>>
  /\ tool = NoTool
  /\ composed = NoCompose
  /\ pass = NoPass
  /\ now = StartClock
  /\ ops = 0
  /\ LoopIdle

raceFrame ==
  << urchinProfile, urchinSkills, urchinEmbeddingCache, urchinCondensed, tool,
     composed, pass, now, ops, requestVars >>

MemoryRaceInit ==
  /\ \E c \in BOOLEAN, held \in BOOLEAN :
       /\ storage = [copies |-> c, urchinMemory |-> IF held THEN 1 ELSE 0,
                     urchinSkills |-> 0]
       /\ heap = IF held THEN <<StartMemory>> ELSE <<>>
  /\ urchinMemory = Held(storage, heap, "urchinMemory")
  /\ procs = [jobs |-> <<>>, pass |-> [pc |-> "timer", ref |-> 0, msgs |-> 4]]
  /\ RaceIdle

\* urchinMemory is what the storage holds
MemorySynced == urchinMemory' = Held(storage', heap', "urchinMemory")

\* toolJobs.map(executeOne) (lines 649-651): the handlers start
Dispatch(jobs) ==
  /\ procs.jobs = <<>>
  /\ procs' = [procs EXCEPT !.jobs = jobs]
  /\ UNCHANGED <<urchinMemory, storage, heap, raceFrame>>

\* REMEMBER up to its first await: storage.get (line 280)
JobGet(i) ==
  /\ i \in DOMAIN procs.jobs
  /\ procs.jobs[i].pc = "get"
  /\ heap' = GetHeap("urchinMemory")
  /\ procs' = [procs EXCEPT !.jobs[i].ref = GetRef("urchinMemory"),
                            !.jobs[i].pc = "set"]
  /\ UNCHANGED <<urchinMemory, storage, raceFrame>>

\* urchinMemory[key] = value; storage.set({urchinMemory}) (lines 281-282)
JobSet(i) ==
  /\ i \in DOMAIN procs.jobs
  /\ procs.jobs[i].pc = "set"
  /\ heap' = [heap EXCEPT ![procs.jobs[i].ref] =
                 remember(@, procs.jobs[i].key, procs.jobs[i].value, now)]
  /\ storage' = [storage EXCEPT !.urchinMemory = procs.jobs[i].ref]
  /\ procs' = [procs EXCEPT !.jobs[i].pc = "done"]
  /\ MemorySynced
  /\ UNCHANGED raceFrame

\* Promise.all resolves: every handler has returned {success: true}
JobsFanIn ==
  /\ procs.jobs # <<>>
  /\ \A i \in DOMAIN procs.jobs : procs.jobs[i].pc = "done"
  /\ procs' = [procs EXCEPT !.jobs = [i \in DOMAIN procs.jobs |->
                                        [procs.jobs[i] EXCEPT !.pc = "returned"]]]
  /\ UNCHANGED <<urchinMemory, storage, heap, raceFrame>>

\* the timer of the pass fires: runPostResponseJobs up to its first await,
\* storage.get (line 490)
PassGet ==
  /\ procs.pass.pc = "timer"
  /\ heap' = GetHeap("urchinMemory")
  /\ procs' = [procs EXCEPT !.pass.ref = GetRef("urchinMemory"),
                            !.pass.pc = "count"]
  /\ UNCHANGED <<urchinMemory, storage, raceFrame>>

\* lines 491-515 up to the next await: the counter is written into the
\* object; then the model is called for the summary, or, the summary not
\* being due, the object is stored
PassCount ==
  /\ procs.pass.pc = "count"
  /\ LET obj == heap[procs.pass.ref]
         count == ConvCount(obj)
     IN  /\ heap' = [heap EXCEPT ![procs.pass.ref] =
                        ObjSet(obj, CounterKey, Count(count), now)]
         /\ IF SessionDue(count, procs.pass.msgs)
            THEN /\ procs' = [procs EXCEPT !.pass.pc = "summary"]
                 /\ UNCHANGED storage
            ELSE /\ procs' = [procs EXCEPT !.pass.pc = "stored"]
                 /\ storage' = [storage EXCEPT !.urchinMemory = procs.pass.ref]
  /\ MemorySynced
  /\ UNCHANGED raceFrame

\* the model call of the summary returns or fails (lines 505-515): the
\* summary goes into the object, and the object is stored
PassSummary(out) ==
  /\ procs.pass.pc = "summary"
  /\ heap' = [heap EXCEPT ![procs.pass.ref] =
                 IF out.kind = "text" THEN SessionStored(@, out.text, now)
                 ELSE @]
  /\ storage' = [storage EXCEPT !.urchinMemory = procs.pass.ref]
  /\ procs' = [procs EXCEPT !.pass.pc = "stored"]
  /\ MemorySynced
  /\ UNCHANGED raceFrame

MemoryRaceNext ==
  \/ \E jobs \in JobLists : Dispatch(jobs)
  \/ \E i \in 1..MaxJobs : JobGet(i)
  \/ \E i \in 1..MaxJobs : JobSet(i)
  \/ JobsFanIn
  \/ PassGet
  \/ PassCount
  \/ \E out \in {Text(<<Blob("bullets", 100)>>), Failed} : PassSummary(out)

MemoryRaceSpec == MemoryRaceInit /\ [][MemoryRaceNext]_vars

\* the fan-in of the iteration
JobsFanInStep ==
  /\ procs.jobs # <<>>
  /\ procs.jobs[1].pc = "done"
  /\ procs'.jobs[1].pc = "returned"

\* the memory has the value of the job under its key
Remembered(memory, job) ==
  /\ ObjHas(memory, job.key)
  /\ ObjGet(memory, job.key) = job.value

\* C31: when the REMEMBER jobs of an iteration, with distinct keys, have all
\* returned success, every one of their keys is in the persisted memory with
\* its value at the fan-in, whatever the interleaving of the handlers' get
\* and set steps, also when the storage held no memory before.
C31_AllRemembered ==
  [][(JobsFanInStep /\ procs.pass.pc = "timer") =>
       \A i \in DOMAIN procs.jobs : Remembered(urchinMemory', procs.jobs[i])
    ]_vars

\* C32: an entry saved by a REMEMBER that returned success is not removed
\* or reverted by the maintenance pass of an earlier request: once the
\* REMEMBER and the pass have both finished, whatever their interleaving,
\* the key is in the memory with its value.
C32_RememberSurvivesPass ==
  (/\ Len(procs.jobs) = 1
   /\ procs.jobs[1].pc = "returned"
   /\ procs.jobs[1].key # CounterKey
   /\ procs.pass.pc = "stored")
  => Remembered(urchinMemory, procs.jobs[1])

\* C34: the persisted conversation counter is changed by maintenance passes
\* only, each adding exactly 1: no REMEMBER, whatever its key, changes it,
\* and it never decreases.
C34_CounterOnlyByPass ==
  [][Counter' # Counter =>
       /\ procs'.pass.pc # procs.pass.pc
       /\ Counter' = Counter + 1]_vars

\* ------------------------------------------------------------------------
\* The skill list under two handlers: loadMemoryLayers of a request and the
\* skill evaluation of the maintenance pass of the request before it.  The
\* list is an array of skill objects; the heap holds the skill objects as
\* [rec |-> skill] and the arrays as [items |-> references].  The default
\* storage hands out the array it holds; a backend that serializes hands out
\* a copy of the array and of every skill in it.
\* ------------------------------------------------------------------------

\* the skills of an array
Deref(hp, id) == [i \in DOMAIN hp[id].items |-> hp[hp[id].items[i]].rec]

\* the heap after the skills of an array were changed in place to recs
WriteBack(hp, id, recs) ==
  [j \in DOMAIN hp |->
     IF \E i \in DOMAIN hp[id].items : hp[id].items[i] = j
     THEN [rec |-> recs[CHOOSE i \in DOMAIN hp[id].items : hp[id].items[i] = j]]
     ELSE hp[j]]

\* const { urchinSkills = [] } = await storage.get('urchinSkills')
GetSkillsHeap ==
  LET items == heap[storage.urchinSkills].items
  IN  IF storage.copies
      THEN heap \o [i \in DOMAIN items |-> heap[items[i]]]
                \o <<[items |-> [i \in DOMAIN items |-> Len(heap) + i]]>>
      ELSE heap

GetSkillsRef ==
  IF storage.copies
  THEN Len(heap) + Len(heap[storage.urchinSkills].items) + 1
  ELSE storage.urchinSkills

\* the skill lists the store may hold at the start
StartLists == {StartSkills, TurnSkills, SubSeq(StartSkills, 1, 2)}

\* the replies of the model to the evaluation prompt
EvalReplies ==
  { Scores(<<[name |-> "tidy", val |-> Number(0)]>>),
    Scores(<<[name |-> "tidy", val |-> Number(0)],
             [name |-> "fresh", val |-> Number(900)]>>),
    Scores(<<[name |-> "worn", val |-> Number(1000)]>>),
    Failed }

SkillRaceInit ==
  /\ \E c \in BOOLEAN, list \in StartLists :
       /\ storage = [copies |-> c, urchinMemory |-> 0,
                     urchinSkills |-> Len(list) + 1]
       /\ heap = [i \in DOMAIN list |-> [rec |-> list[i]]]
                 \o <<[items |-> [i \in DOMAIN list |-> i]]>>
       /\ urchinSkills = list
       \* start, used, scored and dropped record what the handlers did
       /\ procs = [ start |-> list,
                    compose |-> [pc |-> "get", ref |-> 0, used |-> {}],
                    eval |-> [pc |-> "get", ref |-> 0,
                              active |-> ActiveSkillNames(list),
                              scored |-> {}, dropped |-> {}] ]
  /\ urchinMemory = <<>>
  /\ urchinProfile = <<>>
  /\ urchinEmbeddingCache = <<>>
  /\ urchinCondensed = <<>>
  /\ tool = NoTool
  /\ composed = NoCompose
  /\ pass = NoPass
  /\ now = StartClock
  /\ ops = 0
  /\ LoopIdle

skillFrame ==
  << urchinMemory, urchinProfile, urchinEmbeddingCache, urchinCondensed, tool,
     composed, pass, now, ops, requestVars >>

\* urchinSkills is the list the storage holds
SkillsSynced == urchinSkills' = Deref(heap', storage'.urchinSkills)

Names(skills) == {skills[i].name : i \in DOMAIN skills}

\* loadMemoryLayers up to its first await: storage.get (lines 369-374)
ComposeGet ==
  /\ procs.compose.pc = "get"
  /\ heap' = GetSkillsHeap
  /\ procs' = [procs EXCEPT !.compose.ref = GetSkillsRef,
                            !.compose.pc = "use"]
  /\ UNCHANGED <<urchinSkills, storage, skillFrame>>

\* lines 466-480: the viable skills are counted as used, in place, and the
\* array is stored if one is viable
ComposeUse ==
  /\ procs.compose.pc = "use"
  /\ LET ref == procs.compose.ref
         skills == Deref(heap, ref)
     IN  /\ heap' = WriteBack(heap, ref, SkillsUsed(skills, now))
         /\ storage' = IF SkillsWritten(skills)
                       THEN [storage EXCEPT !.urchinSkills = ref]
                       ELSE storage
         /\ procs' = [procs EXCEPT
                        !.compose.pc = "done",
                        !.compose.used =
                          {skills[i].name : i \in {j \in DOMAIN skills :
                                                     Viable(skills[j])}}]
  /\ SkillsSynced
  /\ UNCHANGED skillFrame

\* the evaluation up to its first await: storage.get (line 557); it goes on
\* to the model call if a stored skill was active (lines 558-559)
EvalGet ==
  /\ procs.eval.pc = "get"
  /\ heap' = GetSkillsHeap
  /\ procs' = [procs EXCEPT
                 !.eval.ref = GetSkillsRef,
                 !.eval.pc = IF Names(urchinSkills) \cap Range(procs.eval.active) # {}
                             THEN "score" ELSE "done"]
  /\ UNCHANGED <<urchinSkills, storage, skillFrame>>

\* the model call returns or fails (lines 566-586): the named skills are
\* scored in place, and a new array of the skills that are kept is stored
EvalScore(out) ==
  /\ procs.eval.pc = "score"
  /\ IF out.kind = "scores"
     THEN LET ref == procs.eval.ref
              skills == Deref(heap, ref)
              updated == EvaluatedAll(skills, out.scores, now)
              written == WriteBack(heap, ref, updated)
              kept == SelectSeq(heap[ref].items,
                                LAMBDA id : ~MeetsPrune(written[id].rec, now))
          IN  /\ heap' = Append(written, [items |-> kept])
              /\ storage' = [storage EXCEPT !.urchinSkills = Len(heap) + 1]
              /\ procs' = [procs EXCEPT
                             !.eval.pc = "done",
                             !.eval.scored =
                               {skills[i].name : i \in {j \in DOMAIN skills :
                                                          updated[j] # skills[j]}},
                             !.eval.dropped =
                               {updated[i].name : i \in {j \in DOMAIN updated :
                                                           MeetsPrune(updated[j], now)}}]
     ELSE /\ procs' = [procs EXCEPT !.eval.pc = "done"]
          /\ UNCHANGED <<heap, storage>>
  /\ SkillsSynced
  /\ UNCHANGED skillFrame

SkillRaceNext ==
  \/ ComposeGet
  \/ ComposeUse
  \/ EvalGet
  \/ \E out \in EvalReplies : EvalScore(out)

SkillRaceSpec == SkillRaceInit /\ [][SkillRaceNext]_vars

\* the skill of that name in the list the handlers started from
StartSkill(name) ==
  procs.start[CHOOSE i \in DOMAIN procs.start : procs.start[i].name = name]

\* C33: when the compose of a request and the skill evaluation of the pass
\* before it have both finished, whatever the interleaving of their steps,
\* no skill the evaluation pruned is in the stored list, every stored skill
\* the compose used has its usageCount one above the start, and every
\* stored skill the evaluation scored has its evalCount one above the start.
C33_SkillUpdatesKept ==
  (procs.compose.pc = "done" /\ procs.eval.pc = "done") =>
    \A i \in DOMAIN urchinSkills :
      LET s == urchinSkills[i]
      IN  /\ s.name \notin procs.eval.dropped
          /\ s.name \in procs.compose.used =>
               Field(s, "usageCount", 0)
                 = Field(StartSkill(s.name), "usageCount", 0) + 1
          /\ s.name \in procs.eval.scored =>
               Field(s, "evalCount", 0)
                 = Field(StartSkill(s.name), "evalCount", 0) + 1

====
